---- MODULE Spec2Model ----
(***************************************************************************)
(* Model of the periodic per-user news delivery engine of the Telegram     *)
(* news bot: Scheduler.ProcessUser, the seen-article ledger with its       *)
(* in-memory fallback map, and the scheduler's Start/Stop/tick loop        *)
(* (internal/bot/scheduler/scheduler.go), with the repositories of         *)
(* internal/bot/database/database.go as the storage they call.             *)
(*                                                                         *)
(* Time is counted in minutes.  A goroutine is a record with a pc; one     *)
(* action is one step between two accesses to shared state.                *)
(***************************************************************************)
EXTENDS Integers, Sequences, FiniteSets, TLC

VARIABLES
    clock,          \* time.Now(), in minutes
    users,          \* users table: id -> [last, interval, limit]
    subs,           \* subscriptions table: id -> sequence of topics
    source,         \* what the Article Source answers: topic -> sequence of articles
    sentRows,       \* sent_articles table: set of <<user id, article hash>>
    sentArticles,   \* Scheduler.sentArticles: key -> set of URLs mapped to true
    sink,           \* bot.Send calls since the user's last history reset: id -> url -> count
    tasks,          \* ProcessUser invocations: <<id, kind>> -> goroutine record;
                    \* its fields fetched, pushed and upd log the FetchNews, bot.Send
                    \* and UpdateUserLastNotifiedAt calls the invocation has made
    resets,         \* ResetSentArticlesHistory goroutines: id -> pc
    loop,           \* the goroutine started by Start(): its pc
    started,        \* Start() has been called
    stopClosed,     \* the channel s.stop is closed
    tickPending,    \* ticker.C holds a tick (the channel buffers one)
    tickerOn,       \* the ticker is running
    stopCalls,      \* Stop() calls made since Start()
    pass,           \* sendNewsUpdates in the loop goroutine: its pc, the rows
                    \* GetAllUsers returned and the rows still to be started
    crashed,        \* "no", or the fatal error that ended the process
    favorites,      \* favorite_articles table: id -> sequence of the URLs of its rows
    fetchCall,      \* the Fetcher.FetchNews call in progress: its arguments, the
                    \* answers of the two providers and what it returned
    joins,          \* FindOrCreateUser calls of the Telegram users that came without
                    \* a row: the row each one got (0 for none) and the calls that
                    \* found no row and have their Create ahead
    budget          \* what the environment may still do: [faults, calls, resets, ticks],
                    \* ledgerErrs, the sent_articles calls that have failed so far,
                    \* and down, TRUE while the sent_articles table cannot be reached

vars == <<clock, users, subs, source, sentRows, sentArticles, sink, tasks, resets,
          loop, started, stopClosed, tickPending, tickerOn, stopCalls, pass, crashed,
          favorites, fetchCall, joins, budget>>

storeVars == <<users, subs, source, sentRows, sentArticles, sink>>
schedVars == <<loop, started, stopClosed, tickPending, tickerOn, stopCalls, pass>>
sideVars == <<favorites, fetchCall, joins>>

----------------------------------------------------------------------------
(* Bounds of the model *)

\* minutes the clock advances in one step
ClockStep == 30
\* number of clock steps
MaxClockSteps == 2
\* supplier failures injected in one behaviour
MaxFaults == 2
\* ProcessUser calls in one behaviour
MaxCalls == 2
\* ticks of the scheduler's ticker in one behaviour
MaxTicks == 2
\* bot.Send calls counted per user and URL
MaxPush == 3
\* articles the Article Source returns for the topic of the long feed
FeedSize == 8
\* history resets of a user in one behaviour of the serial callers
MaxResets == 1
\* articles in the answer of one news provider
MaxAnswer == 2
\* FindOrCreateUser calls of one Telegram user between their FirstOrInit and
\* their Create at the same time
MaxPending == 2

(* Program constants *)

\* NotificationIntervalMinutes `gorm:"default:60"`
DefaultInterval == 60
\* newsLimit = 5 when user.NewsLimit <= 0
DefaultNewsLimit == 5
\* const maxCacheSize = 100
maxCacheSize == 100
\* time.Hour * 24 * 183, in minutes
newsFilterThreshold == 60 * 24 * 183

Min(a, b) == IF a <= b THEN a ELSE b

----------------------------------------------------------------------------
(* Pure helpers of ProcessUser and of the fallback map *)

\* Mutant of NotDueYet: the comparison of the elapsed time is turned around.
NotDueYet_Inverted(user, force, now) ==
    /\ ~force
    /\ user.last # <<>>
    /\ now - user.last[1] > user.interval

\* Mutant of NotDueYet: a user is held back also when exactly the interval has passed.
NotDueYet_Inclusive(user, force, now) ==
    /\ ~force
    /\ user.last # <<>>
    /\ now - user.last[1] <= user.interval

\* The timing gate: TRUE when a call returns at once because it is not time yet.
\* user.last is the pointer LastNotifiedAt: <<>> for nil, <<t>> otherwise.
NotDueYet(user, force, now) ==
    /\ ~force
    /\ user.last # <<>>
    /\ now - user.last[1] < user.interval

\* The cap: the user's limit, or 5 when it is not positive.
NewsLimit(user) == IF user.limit <= 0 THEN DefaultNewsLimit ELSE user.limit

\* Mutant of ArticlesToSend: the slice keeps one article more than the limit.
ArticlesToSend_OffByOne(fresh, user) ==
    IF Len(fresh) > NewsLimit(user) THEN SubSeq(fresh, 1, NewsLimit(user) + 1) ELSE fresh

\* articlesToSend: the first newsLimit fresh articles.
ArticlesToSend(fresh, user) ==
    IF Len(fresh) > NewsLimit(user) THEN SubSeq(fresh, 1, NewsLimit(user)) ELSE fresh

\* Mutant of WithinThreshold: an article of exactly the threshold age passes.
WithinThreshold_Inclusive(now, article) == now - article.publishedAt <= newsFilterThreshold

\* The staleness filter: now.Sub(article.PublishedAt) < newsFilterThreshold.
WithinThreshold(now, article) == now - article.publishedAt < newsFilterThreshold

\* sentArticleRepository.IsArticleSent: count > 0 of the rows of (user, hash).
LedgerHas(rows, u, hash) == <<u, hash>> \in rows

\* sentArticleRepository.MarkArticleAsSent: Create of one row.  Rows of one
\* (user, hash) are told apart by no query of the program, so the table is the
\* set of the pairs it holds.
LedgerInsert(rows, u, hash) == rows \cup {<<u, hash>>}

\* Mutant of LedgerDelete: the delete has no condition on the user.
LedgerDelete_EveryUser(rows, u) == {}

\* Mutant of LedgerDelete: the delete removes one row of the user at most.
LedgerDelete_OneRow(rows, u) ==
    IF \E x \in rows : x[1] = u
    THEN rows \ {CHOOSE x \in rows : x[1] = u}
    ELSE rows

\* sentArticleRepository.ResetSentArticlesHistory: delete where user_id = u.
LedgerDelete(rows, u) == {r \in rows : r[1] # u}

\* topicKey := fmt.Sprintf("%d:%s", userID, articleHash)
TopicKey(u, hash) == <<u, hash>>

\* userIDStr := fmt.Sprintf("%d", userID)
UserKey(u) == <<u>>

\* Mutant of CacheLookup: the read looks under the user's key, the one the
\* reset writes.
CacheLookup_ByUserKey(cache, u, url) ==
    IF UserKey(u) \notin DOMAIN cache
    THEN FALSE
    ELSE url \in cache[UserKey(u)]

\* The fallback read of isArticleSent.
CacheLookup(cache, u, url) ==
    IF TopicKey(u, url) \notin DOMAIN cache
    THEN FALSE
    ELSE url \in cache[TopicKey(u, url)]

\* The fallback write of markArticleAsSent.
CacheStore(cache, u, url) ==
    LET key == TopicKey(u, url)
        c1 == IF key \notin DOMAIN cache THEN (key :> {}) @@ cache ELSE cache
        c2 == IF Cardinality(c1[key]) >= maxCacheSize
              THEN [c1 EXCEPT ![key] = {}]
              ELSE c1
    IN  [c2 EXCEPT ![key] = @ \cup {url}]

\* The map write of ResetSentArticlesHistory: s.sentArticles[userIDStr] = make(...).
CacheReset(cache, u) == (UserKey(u) :> {}) @@ cache

----------------------------------------------------------------------------
(* The goroutine of one ProcessUser invocation *)

UserIds == DOMAIN users
TaskIds == DOMAIN tasks

IdleTask ==
    [pc |-> "idle", user |-> [id |-> 0, last |-> <<>>, interval |-> 0, limit |-> 0],
     force |-> FALSE, now |-> 0, topics |-> <<>>, ti |-> 0, arts |-> <<>>, ai |-> 0,
     fresh |-> <<>>, di |-> 0, pushed |-> <<>>, fetched |-> <<>>, upd |-> <<>>, ret |-> 0,
     ans |-> FALSE, err |-> FALSE, notice |-> FALSE]

\* The arguments of a call: the user row as the caller read it, and force.
NewTask(u, row, force) ==
    [IdleTask EXCEPT !.pc = "start",
                     !.user = [id |-> u, last |-> row.last,
                               interval |-> row.interval, limit |-> row.limit],
                     !.force = force]

\* Mutant of AfterTopics: a pass without fresh articles returns without the
\* timestamp update.
AfterTopics_NoUpdateWhenEmpty(r) ==
    IF Len(r.fresh) = 0
    THEN [r EXCEPT !.pc = "done", !.ret = 0]
    ELSE [r EXCEPT !.pc = "send", !.di = 1]

\* After the topic loop: the empty branch goes to the timestamp update, the
\* other one to the send loop.
AfterTopics(r) ==
    IF Len(r.fresh) = 0
    THEN [r EXCEPT !.pc = "update"]
    ELSE [r EXCEPT !.pc = "send", !.di = 1]

\* The next iteration of "for _, topic := range topics".
NextTopic(r) ==
    IF r.ti < Len(r.topics)
    THEN [r EXCEPT !.ti = @ + 1, !.arts = <<>>, !.ai = 0, !.pc = "fetch"]
    ELSE AfterTopics([r EXCEPT !.ti = @ + 1, !.arts = <<>>, !.ai = 0])

\* The next iteration of "for _, article := range articles".
NextArticle(r) ==
    IF r.ai < Len(r.arts)
    THEN [r EXCEPT !.ai = @ + 1, !.pc = "article"]
    ELSE NextTopic(r)

\* Mutant of Fetched: an error ends the topic loop instead of skipping the topic.
Fetched_BreakOnError(r, ok, articles) ==
    LET r1 == [r EXCEPT !.fetched = Append(@, <<r.topics[r.ti], ok>>)]
    IN  IF ~ok THEN AfterTopics([r1 EXCEPT !.ti = Len(r.topics) + 1])
        ELSE IF Len(articles) = 0 THEN NextTopic(r1)
        ELSE [r1 EXCEPT !.arts = articles, !.ai = 1, !.pc = "article"]

\* The answer of FetchNews has arrived: an error skips the topic.
Fetched(r, ok, articles) ==
    LET r1 == [r EXCEPT !.fetched = Append(@, <<r.topics[r.ti], ok>>)]
    IN  IF ~ok THEN NextTopic(r1)
        ELSE IF Len(articles) = 0 THEN NextTopic(r1)
        ELSE [r1 EXCEPT !.arts = articles, !.ai = 1, !.pc = "article"]

\* The answer of isArticleSent has arrived for the article at hand.
Checked(r, sent) ==
    IF sent THEN NextArticle(r)
    ELSE [r EXCEPT !.fresh = Append(@, r.arts[r.ai]), !.pc = "mark"]

\* Mutant of Returned: the call returns the number of articles it pushed.
Returned_CountsPushed(r) == [r EXCEPT !.pc = "done", !.ret = Len(r.pushed)]

\* The value ProcessUser returns once the timestamp update was tried.
Returned(r) ==
    IF Len(r.fresh) = 0 THEN [r EXCEPT !.pc = "done", !.ret = 0]
    ELSE [r EXCEPT !.pc = "done", !.ret = Len(r.fresh)]

Alive == crashed = "no"
CanFail == budget.faults > 0
Spend(what) == [budget EXCEPT ![what] = @ - 1]
\* The sent_articles table can be reached.
LedgerUp == ~budget.down
\* A call of the sent_articles repository may return an error: every call does
\* while the table cannot be reached.
LedgerCanFail == budget.down \/ CanFail
\* A call of the sent_articles repository returns an error.
LedgerFault ==
    IF budget.down
    THEN [budget EXCEPT !.ledgerErrs = @ + 1]
    ELSE [budget EXCEPT !.faults = @ - 1, !.ledgerErrs = @ + 1]

----------------------------------------------------------------------------
(* ProcessUser, one action per step *)

\* A caller invokes ProcessUser(ctx, user, force) in a goroutine of its own:
\* handleGetNewsNow with force = true, the batch pass with force = false.  The
\* user row is the one the caller holds.
ProcessUserCall(u, force) ==
    LET t == <<u, IF force THEN "forced" ELSE "sched">>
    IN  /\ Alive
        /\ t \in TaskIds
        /\ tasks[t].pc \in {"idle", "done"}
        /\ budget.calls > 0
        /\ budget' = Spend("calls")
        /\ tasks' = [tasks EXCEPT ![t] = NewTask(u, users[u], force)]
        /\ UNCHANGED <<sideVars, clock, storeVars, resets, schedVars, crashed>>

\* now := time.Now() and the timing gate.
Gate(t) ==
    /\ Alive
    /\ tasks[t].pc = "start"
    /\ LET r == [tasks[t] EXCEPT !.now = clock]
       IN  tasks' = [tasks EXCEPT ![t] =
                        IF NotDueYet(r.user, r.force, r.now)
                        THEN [r EXCEPT !.pc = "done", !.ret = 0]
                        ELSE [r EXCEPT !.pc = "subs"]]
    /\ UNCHANGED <<sideVars, clock, storeVars, resets, schedVars, crashed, budget>>

\* Mutant of GetSubscriptions: the test for an empty topic list is missing, so
\* the call runs its empty topic loop and goes on to the bookkeeping.
GetSubscriptions_NoEmptyTest(t) ==
    /\ Alive
    /\ tasks[t].pc = "subs"
    /\ LET r == tasks[t]
           topics == subs[r.user.id]
       IN  \/ /\ tasks' = [tasks EXCEPT ![t] =
                     IF Len(topics) = 0
                     THEN [r EXCEPT !.pc = "update"]
                     ELSE [r EXCEPT !.topics = topics, !.ti = 1, !.pc = "fetch"]]
              /\ UNCHANGED budget
           \/ /\ CanFail
              /\ budget' = Spend("faults")
              /\ tasks' = [tasks EXCEPT ![t] = [r EXCEPT !.pc = "done", !.ret = 0]]
    /\ UNCHANGED <<sideVars, clock, storeVars, resets, schedVars, crashed>>

\* topics, err := s.subRepo.GetUserSubscriptions(ctx, user.ID)
\* Mutant of GetSubscriptions: a failed retrieval goes on to the timestamp
\* update, as a pass without fresh articles does.
GetSubscriptions_UpdatesOnError(t) ==
    /\ Alive
    /\ tasks[t].pc = "subs"
    /\ LET r == tasks[t]
           topics == subs[r.user.id]
       IN  \/ /\ tasks' = [tasks EXCEPT ![t] =
                     IF Len(topics) = 0
                     THEN [r EXCEPT !.pc = "done", !.ret = 0]
                     ELSE [r EXCEPT !.topics = topics, !.ti = 1, !.pc = "fetch"]]
              /\ UNCHANGED budget
           \/ /\ CanFail
              /\ budget' = Spend("faults")
              /\ tasks' = [tasks EXCEPT ![t] = [r EXCEPT !.pc = "update"]]
    /\ UNCHANGED <<sideVars, clock, storeVars, resets, schedVars, crashed>>

GetSubscriptions(t) ==
    /\ Alive
    /\ tasks[t].pc = "subs"
    /\ LET r == tasks[t]
           topics == subs[r.user.id]
       IN  \/ /\ tasks' = [tasks EXCEPT ![t] =
                     IF Len(topics) = 0
                     THEN [r EXCEPT !.pc = "done", !.ret = 0]
                     ELSE [r EXCEPT !.topics = topics, !.ti = 1, !.pc = "fetch"]]
              /\ UNCHANGED budget
           \/ /\ CanFail
              /\ budget' = Spend("faults")
              /\ tasks' = [tasks EXCEPT ![t] = [r EXCEPT !.pc = "done", !.ret = 0]]
    /\ UNCHANGED <<sideVars, clock, storeVars, resets, schedVars, crashed>>

\* articles, err := s.fetcher.FetchNews(topic)
FetchTopic(t) ==
    /\ Alive
    /\ tasks[t].pc = "fetch"
    /\ LET r == tasks[t]
       IN  \/ /\ tasks' = [tasks EXCEPT ![t] = Fetched(r, TRUE, source[r.topics[r.ti]])]
              /\ UNCHANGED budget
           \/ /\ CanFail
              /\ budget' = Spend("faults")
              /\ tasks' = [tasks EXCEPT ![t] = Fetched(r, FALSE, <<>>)]
    /\ UNCHANGED <<sideVars, clock, storeVars, resets, schedVars, crashed>>

\* The condition of line 344 for one article: the staleness test, then
\* isArticleSent, whose ledger read either answers or fails and sends the
\* goroutine to the fallback map.
CheckArticle(t) ==
    /\ Alive
    /\ tasks[t].pc = "article"
    /\ LET r == tasks[t]
           a == r.arts[r.ai]
       IN  IF ~WithinThreshold(r.now, a)
           THEN /\ tasks' = [tasks EXCEPT ![t] = NextArticle(r)]
                /\ UNCHANGED budget
           ELSE \/ /\ LedgerUp
                   /\ tasks' = [tasks EXCEPT ![t] =
                                   Checked(r, LedgerHas(sentRows, r.user.id, a.url))]
                   /\ UNCHANGED budget
                \/ /\ LedgerCanFail
                   /\ budget' = LedgerFault
                   /\ tasks' = [tasks EXCEPT ![t] = [r EXCEPT !.pc = "cacheR"]]
    /\ UNCHANGED <<sideVars, clock, storeVars, resets, schedVars, crashed>>

\* isArticleSent after a failed ledger read: the answer of the fallback map.
CacheRead(t) ==
    /\ Alive
    /\ tasks[t].pc = "cacheR"
    /\ LET r == tasks[t]
       IN  tasks' = [tasks EXCEPT ![t] =
                        Checked(r, CacheLookup(sentArticles, r.user.id, r.arts[r.ai].url))]
    /\ UNCHANGED <<sideVars, clock, storeVars, resets, schedVars, crashed, budget>>

\* markArticleAsSent: the ledger write, which either inserts the row or fails
\* and sends the goroutine to the fallback map.
MarkArticle(t) ==
    /\ Alive
    /\ tasks[t].pc = "mark"
    /\ LET r == tasks[t]
       IN  \/ /\ LedgerUp
              /\ sentRows' = LedgerInsert(sentRows, r.user.id, r.arts[r.ai].url)
              /\ tasks' = [tasks EXCEPT ![t] = NextArticle(r)]
              /\ UNCHANGED budget
           \/ /\ LedgerCanFail
              /\ budget' = LedgerFault
              /\ tasks' = [tasks EXCEPT ![t] = [r EXCEPT !.pc = "cacheW"]]
              /\ UNCHANGED sentRows
    /\ UNCHANGED <<sideVars, clock, users, subs, source, sentArticles, sink, resets, schedVars, crashed>>

\* markArticleAsSent after a failed ledger write: the write to the fallback map.
CacheWrite(t) ==
    /\ Alive
    /\ tasks[t].pc = "cacheW"
    /\ LET r == tasks[t]
       IN  /\ sentArticles' = CacheStore(sentArticles, r.user.id, r.arts[r.ai].url)
           /\ tasks' = [tasks EXCEPT ![t] = NextArticle(r)]
    /\ UNCHANGED <<sideVars, clock, users, subs, source, sentRows, sink, resets, schedVars,
                   crashed, budget>>

\* Mutant of SendArticle: a failed delivery ends the send loop.
SendArticle_StopsOnError(t) ==
    /\ Alive
    /\ tasks[t].pc = "send"
    /\ LET r == tasks[t]
           list == ArticlesToSend(r.fresh, r.user)
           a == list[r.di]
           u == r.user.id
           r1(ok) == [r EXCEPT !.pushed = Append(@, [url |-> a.url, ok |-> ok])]
       IN  /\ sink[u][a.url] < MaxPush
           /\ sink' = [sink EXCEPT ![u][a.url] = @ + 1]
           /\ \/ /\ tasks' = [tasks EXCEPT ![t] =
                                 IF r.di < Len(list)
                                 THEN [r1(TRUE) EXCEPT !.di = @ + 1]
                                 ELSE [r1(TRUE) EXCEPT !.di = @ + 1, !.pc = "update"]]
                 /\ UNCHANGED budget
              \/ /\ CanFail
                 /\ budget' = Spend("faults")
                 /\ tasks' = [tasks EXCEPT ![t] =
                                 [r1(FALSE) EXCEPT !.di = @ + 1, !.pc = "update"]]
    /\ UNCHANGED <<sideVars, clock, users, subs, source, sentRows, sentArticles, resets, schedVars,
                   crashed>>

\* One iteration of the send loop: sendArticleWithFavoriteButton, whose error is
\* logged and skipped.
SendArticle(t) ==
    /\ Alive
    /\ tasks[t].pc = "send"
    /\ LET r == tasks[t]
           list == ArticlesToSend(r.fresh, r.user)
           a == list[r.di]
           u == r.user.id
           after(ok) == LET r1 == [r EXCEPT !.pushed = Append(@, [url |-> a.url, ok |-> ok])]
                        IN  IF r.di < Len(list)
                            THEN [r1 EXCEPT !.di = @ + 1]
                            ELSE [r1 EXCEPT !.di = @ + 1, !.pc = "update"]
       IN  /\ sink[u][a.url] < MaxPush
           /\ sink' = [sink EXCEPT ![u][a.url] = @ + 1]
           /\ \/ /\ tasks' = [tasks EXCEPT ![t] = after(TRUE)]
                 /\ UNCHANGED budget
              \/ /\ CanFail
                 /\ budget' = Spend("faults")
                 /\ tasks' = [tasks EXCEPT ![t] = after(FALSE)]
    /\ UNCHANGED <<sideVars, clock, users, subs, source, sentRows, sentArticles, resets, schedVars,
                   crashed>>

\* s.userRepo.UpdateUserLastNotifiedAt(ctx, user.ID, now), whose error is logged,
\* and the return.
\* Mutant of UpdateLastNotified: the row the pass was given is saved whole.
UpdateLastNotified_SavesRow(t) ==
    /\ Alive
    /\ tasks[t].pc = "update"
    /\ LET r == tasks[t]
           issued(ok) == [r EXCEPT !.upd = Append(@, [at |-> r.now, ok |-> ok])]
       IN  \/ /\ users' = [users EXCEPT ![r.user.id] =
                     [last |-> <<r.now>>, interval |-> r.user.interval,
                      limit |-> r.user.limit]]
              /\ tasks' = [tasks EXCEPT ![t] = Returned(issued(TRUE))]
              /\ UNCHANGED budget
           \/ /\ CanFail
              /\ budget' = Spend("faults")
              /\ tasks' = [tasks EXCEPT ![t] = Returned(issued(FALSE))]
              /\ UNCHANGED users
    /\ UNCHANGED <<sideVars, clock, subs, source, sentRows, sentArticles, sink, resets, schedVars,
                   crashed>>

UpdateLastNotified(t) ==
    /\ Alive
    /\ tasks[t].pc = "update"
    /\ LET r == tasks[t]
           issued(ok) == [r EXCEPT !.upd = Append(@, [at |-> r.now, ok |-> ok])]
       IN  \/ /\ users' = [users EXCEPT ![r.user.id].last = <<r.now>>]
              /\ tasks' = [tasks EXCEPT ![t] = Returned(issued(TRUE))]
              /\ UNCHANGED budget
           \/ /\ CanFail
              /\ budget' = Spend("faults")
              /\ tasks' = [tasks EXCEPT ![t] = Returned(issued(FALSE))]
              /\ UNCHANGED users
    /\ UNCHANGED <<sideVars, clock, subs, source, sentRows, sentArticles, sink, resets, schedVars,
                   crashed>>

----------------------------------------------------------------------------
(* ResetSentArticlesHistory, called by handleResetHistory in a goroutine *)

\* The ledger delete; its error is returned before the map is touched.
ResetHistory(u) ==
    /\ Alive
    /\ resets[u] = "idle"
    /\ budget.resets > 0
    /\ \/ /\ LedgerUp
          /\ sentRows' = LedgerDelete(sentRows, u)
          /\ sink' = [sink EXCEPT ![u] = [a \in DOMAIN sink[u] |-> 0]]
          /\ resets' = [resets EXCEPT ![u] = "mapW"]
          /\ budget' = Spend("resets")
       \/ /\ LedgerCanFail
          /\ budget' = [LedgerFault EXCEPT !.resets = @ - 1]
          /\ UNCHANGED <<sentRows, sink, resets>>
    /\ UNCHANGED <<sideVars, clock, users, subs, source, sentArticles, tasks, schedVars, crashed>>

\* s.sentArticles[userIDStr] = make(map[string]bool)
ResetMapWrite(u) ==
    /\ Alive
    /\ resets[u] = "mapW"
    /\ sentArticles' = CacheReset(sentArticles, u)
    /\ resets' = [resets EXCEPT ![u] = "idle"]
    /\ UNCHANGED <<sideVars, clock, users, subs, source, sentRows, sink, tasks, schedVars,
                   crashed, budget>>

----------------------------------------------------------------------------
(* The public ledger operations, called by the search handler in a goroutine *)

\* The argument of a ledger operation: the article with this URL.
ArticleOf(url) == [url |-> url, publishedAt |-> 0]

\* filterSentArticles calls s.IsArticleSent(ctx, userID, article.URL).
IsArticleSentCall(u, url) ==
    LET t == <<u, "seen">>
    IN  /\ Alive
        /\ t \in TaskIds
        /\ tasks[t].pc \in {"idle", "done"}
        /\ budget.calls > 0
        /\ budget' = Spend("calls")
        /\ tasks' = [tasks EXCEPT ![t] =
                         [IdleTask EXCEPT !.pc = "qLedger", !.user.id = u,
                                          !.arts = <<ArticleOf(url)>>, !.ai = 1]]
        /\ UNCHANGED <<sideVars, clock, storeVars, resets, schedVars, crashed>>

\* isArticleSent for the public caller: the ledger read answers, or fails and
\* sends the goroutine to the fallback map.  IsArticleSent returns a nil error.
SeenLedgerRead(t) ==
    /\ Alive
    /\ tasks[t].pc = "qLedger"
    /\ LET r == tasks[t]
       IN  \/ /\ LedgerUp
              /\ tasks' = [tasks EXCEPT ![t] =
                     [r EXCEPT !.pc = "done",
                               !.ans = LedgerHas(sentRows, r.user.id, r.arts[1].url)]]
              /\ UNCHANGED budget
           \/ /\ LedgerCanFail
              /\ budget' = LedgerFault
              /\ tasks' = [tasks EXCEPT ![t] = [r EXCEPT !.pc = "qCacheR"]]
    /\ UNCHANGED <<sideVars, clock, storeVars, resets, schedVars, crashed>>

\* isArticleSent for the public caller after a failed ledger read.
SeenCacheRead(t) ==
    /\ Alive
    /\ tasks[t].pc = "qCacheR"
    /\ LET r == tasks[t]
       IN  tasks' = [tasks EXCEPT ![t] =
                        [r EXCEPT !.pc = "done",
                                  !.ans = CacheLookup(sentArticles, r.user.id, r.arts[1].url)]]
    /\ UNCHANGED <<sideVars, clock, storeVars, resets, schedVars, crashed, budget>>

\* handleSearchNewsQuery calls s.MarkArticleAsSent(ctx, user.ID, article.URL).
MarkArticleAsSentCall(u, url) ==
    LET t == <<u, "mark">>
    IN  /\ Alive
        /\ t \in TaskIds
        /\ tasks[t].pc \in {"idle", "done"}
        /\ budget.calls > 0
        /\ budget' = Spend("calls")
        /\ tasks' = [tasks EXCEPT ![t] =
                         [IdleTask EXCEPT !.pc = "mLedger", !.user.id = u,
                                          !.arts = <<ArticleOf(url)>>, !.ai = 1]]
        /\ UNCHANGED <<sideVars, clock, storeVars, resets, schedVars, crashed>>

\* MarkArticleAsSent: the ledger write, whose error is returned at once.
MarkSentLedger(t) ==
    /\ Alive
    /\ tasks[t].pc = "mLedger"
    /\ LET r == tasks[t]
       IN  \/ /\ LedgerUp
              /\ sentRows' = LedgerInsert(sentRows, r.user.id, r.arts[1].url)
              /\ tasks' = [tasks EXCEPT ![t] = [r EXCEPT !.pc = "mAgain"]]
              /\ UNCHANGED budget
           \/ /\ LedgerCanFail
              /\ budget' = LedgerFault
              /\ tasks' = [tasks EXCEPT ![t] = [r EXCEPT !.pc = "done", !.err = TRUE]]
              /\ UNCHANGED sentRows
    /\ UNCHANGED <<sideVars, clock, users, subs, source, sentArticles, sink, resets, schedVars, crashed>>

\* Mutant of MarkSentAgain: the map is written after a successful ledger write too.
MarkSentAgain_WritesThrough(t) ==
    /\ Alive
    /\ tasks[t].pc = "mAgain"
    /\ LET r == tasks[t]
       IN  \/ /\ LedgerUp
              /\ sentRows' = LedgerInsert(sentRows, r.user.id, r.arts[1].url)
              /\ tasks' = [tasks EXCEPT ![t] = [r EXCEPT !.pc = "mCacheW"]]
              /\ UNCHANGED budget
           \/ /\ LedgerCanFail
              /\ budget' = LedgerFault
              /\ tasks' = [tasks EXCEPT ![t] = [r EXCEPT !.pc = "mCacheW"]]
              /\ UNCHANGED sentRows
    /\ UNCHANGED <<sideVars, clock, users, subs, source, sentArticles, sink, resets, schedVars, crashed>>

\* MarkArticleAsSent after its own write succeeded: s.markArticleAsSent, which
\* writes the ledger once more and falls back to the map when that write fails.
MarkSentAgain(t) ==
    /\ Alive
    /\ tasks[t].pc = "mAgain"
    /\ LET r == tasks[t]
       IN  \/ /\ LedgerUp
              /\ sentRows' = LedgerInsert(sentRows, r.user.id, r.arts[1].url)
              /\ tasks' = [tasks EXCEPT ![t] = [r EXCEPT !.pc = "done"]]
              /\ UNCHANGED budget
           \/ /\ LedgerCanFail
              /\ budget' = LedgerFault
              /\ tasks' = [tasks EXCEPT ![t] = [r EXCEPT !.pc = "mCacheW"]]
              /\ UNCHANGED sentRows
    /\ UNCHANGED <<sideVars, clock, users, subs, source, sentArticles, sink, resets, schedVars, crashed>>

\* The write to the fallback map inside MarkArticleAsSent; it returns nil.
MarkSentCacheWrite(t) ==
    /\ Alive
    /\ tasks[t].pc = "mCacheW"
    /\ LET r == tasks[t]
       IN  /\ sentArticles' = CacheStore(sentArticles, r.user.id, r.arts[1].url)
           /\ tasks' = [tasks EXCEPT ![t] = [r EXCEPT !.pc = "done"]]
    /\ UNCHANGED <<sideVars, clock, users, subs, source, sentRows, sink, resets, schedVars,
                   crashed, budget>>

----------------------------------------------------------------------------
(* The unsynchronised map *)

\* The goroutines that are inside an access to s.sentArticles, each with the
\* key it uses.
MapAccesses ==
    {[who |-> t, kind |-> "read", key |-> TopicKey(tasks[t].user.id, tasks[t].arts[tasks[t].ai].url)]
        : t \in {x \in TaskIds : tasks[x].pc \in {"cacheR", "qCacheR"}}}
    \cup
    {[who |-> t, kind |-> "write", key |-> TopicKey(tasks[t].user.id, tasks[t].arts[tasks[t].ai].url)]
        : t \in {x \in TaskIds : tasks[x].pc \in {"cacheW", "mCacheW"}}}
    \cup
    {[who |-> <<u, "reset">>, kind |-> "write", key |-> UserKey(u)]
        : u \in {v \in UserIds : resets[v] = "mapW"}}

\* A write assigns to the outer map when its key is new, when the inner map is
\* full and replaced, and in a reset; otherwise it writes the inner map of its key.
WritesOuterMap(g) ==
    IF g.kind # "write" THEN FALSE
    ELSE IF g.key = UserKey(g.who[1]) THEN TRUE
    ELSE IF g.key \notin DOMAIN sentArticles THEN TRUE
    ELSE Cardinality(sentArticles[g.key]) >= maxCacheSize

\* Every access reads the outer map; two accesses with one key share its inner map.
MapConflict(g, h) ==
    IF g.who = h.who THEN FALSE
    ELSE IF WritesOuterMap(g) THEN TRUE
    ELSE g.kind = "write" /\ g.key = h.key

\* Two goroutines are inside conflicting accesses to the unsynchronised map: the
\* Go runtime may end the process ("fatal error: concurrent map writes" or
\* "concurrent map read and map write"); otherwise the accesses complete as
\* CacheRead, CacheWrite and ResetMapWrite say.
MapRaceFatal ==
    /\ Alive
    /\ \E g, h \in MapAccesses : MapConflict(g, h)
    /\ crashed' = "fatal error: concurrent map access"
    /\ UNCHANGED <<sideVars, clock, storeVars, tasks, resets, schedVars, budget>>

----------------------------------------------------------------------------
(* The clock *)

AdvanceClock ==
    /\ Alive
    /\ clock < ClockStep * MaxClockSteps
    /\ clock' = clock + ClockStep
    /\ UNCHANGED <<sideVars, storeVars, tasks, resets, schedVars, crashed, budget>>

----------------------------------------------------------------------------
(* The engine under direct calls: one user with a limit of one article and   *)
(* either no subscription or two, a scheduled and a forced invocation        *)

MinutesPerDay == 60 * 24

\* A recent article, returned for both topics.
ArtA == [url |-> "a", publishedAt |-> 0 - 10 * MinutesPerDay]
\* An article that turns 183 days old at the first clock step.
ArtB == [url |-> "b", publishedAt |-> ClockStep - newsFilterThreshold]

Catalog == ("sports" :> <<ArtA>>) @@ ("tech" :> <<ArtB, ArtA>>)

\* The Telegram users who write to the bot without a row in users.
Newcomers == {"carol"}
NoJoins == [c \in Newcomers |-> [row |-> 0, pending |-> 0]]

\* No FetchNews call is being followed.
NoFetch == [pc |-> "none"]

NoTasks(ids) == [t \in ids |-> IdleTask]

\* The loop goroutine is not inside sendNewsUpdates.
NoPass == [pc |-> "none", users |-> <<>>, todo |-> <<>>]

\* NewScheduler: an open stop channel, an empty map, no goroutine yet.
NewScheduler ==
    /\ sentArticles = <<>>
    /\ loop = "none"
    /\ started = FALSE
    /\ stopClosed = FALSE
    /\ tickPending = FALSE
    /\ tickerOn = FALSE
    /\ stopCalls = 0
    /\ pass = NoPass
    /\ crashed = "no"

Init ==
    /\ clock = 0
    /\ users = [u \in {1} |-> [last |-> <<>>, interval |-> DefaultInterval, limit |-> 1]]
    /\ subs \in {[u \in {1} |-> <<>>], [u \in {1} |-> <<"sports", "tech">>]}
    /\ source = Catalog
    /\ sentRows = {}
    /\ favorites = [u \in DOMAIN users |-> <<>>]
    /\ fetchCall = NoFetch
    /\ joins = NoJoins
    /\ sink = [u \in {1} |-> [a \in {"a", "b"} |-> 0]]
    /\ tasks = NoTasks({1} \X {"sched", "forced"})
    /\ resets = [u \in {1} |-> "idle"]
    /\ NewScheduler
    /\ budget = [faults |-> MaxFaults, calls |-> MaxCalls, resets |-> 0, ticks |-> 0,
                 ledgerErrs |-> 0, down |-> FALSE]

Next ==
    \/ \E u \in UserIds, force \in BOOLEAN : ProcessUserCall(u, force)
    \/ \E t \in TaskIds : Gate(t)
    \/ \E t \in TaskIds : GetSubscriptions(t)
    \/ \E t \in TaskIds : FetchTopic(t)
    \/ \E t \in TaskIds : CheckArticle(t)
    \/ \E t \in TaskIds : CacheRead(t)
    \/ \E t \in TaskIds : MarkArticle(t)
    \/ \E t \in TaskIds : CacheWrite(t)
    \/ \E t \in TaskIds : SendArticle(t)
    \/ \E t \in TaskIds : UpdateLastNotified(t)
    \/ MapRaceFatal
    \/ AdvanceClock

Spec == Init /\ [][Next]_vars

----------------------------------------------------------------------------
(* The scheduler: Start, Stop, the ticker and the batch pass *)

SchedTasks == {t \in TaskIds : t[2] = "sched"}

\* The id of the next row of users: the primary key counts up.
NextUserId ==
    IF UserIds = {} THEN 1
    ELSE 1 + (CHOOSE m \in UserIds : \A v \in UserIds : v <= m)

\* getOrCreateUser, the first call of every handler: FindOrCreateUser up to its
\* FirstOrInit, which found no row of the Telegram user c, so that user.ID == 0
\* and the Create is ahead.  (With a row found the function returns it and
\* changes nothing; the handler goes on with the id of the row.)
FindOrCreateUser(c) ==
    /\ Alive
    /\ joins[c].row = 0
    /\ joins[c].pending < MaxPending
    /\ joins' = [joins EXCEPT ![c].pending = @ + 1]
    /\ UNCHANGED <<favorites, fetchCall, clock, storeVars, tasks, resets, schedVars, crashed,
                   budget>>

\* FindOrCreateUser: the Create of the row of the Telegram user c, with the
\* column defaults (interval 60, news_limit 5, last_notified_at NULL) and no
\* subscription, ledger row or favorite.  The Create fails, and the handler
\* returns, on a database error and when another call has created the row of c
\* in between (telegram_id has a unique index).
CreateUser(c) ==
    /\ Alive
    /\ joins[c].pending > 0
    /\ IF joins[c].row = 0
       THEN \/ LET id == NextUserId
                   first == CHOOSE v \in UserIds : \A w \in UserIds : v <= w
               IN  /\ users' = users @@ (id :> [last |-> <<>>, interval |-> DefaultInterval,
                                                limit |-> DefaultNewsLimit])
                   /\ subs' = subs @@ (id :> <<>>)
                   /\ sink' = sink @@ (id :> [a \in DOMAIN sink[first] |-> 0])
                   /\ favorites' = favorites @@ (id :> <<>>)
                   /\ resets' = resets @@ (id :> "idle")
                   /\ tasks' = tasks @@ [t \in {id} \X {x[2] : x \in TaskIds} |-> IdleTask]
                   /\ joins' = [joins EXCEPT ![c] = [row |-> id, pending |-> @.pending - 1]]
                   /\ UNCHANGED budget
            \/ /\ CanFail
               /\ budget' = Spend("faults")
               /\ joins' = [joins EXCEPT ![c].pending = @ - 1]
               /\ UNCHANGED <<users, subs, sink, favorites, resets, tasks>>
       ELSE /\ joins' = [joins EXCEPT ![c].pending = @ - 1]
            /\ UNCHANGED <<users, subs, sink, favorites, resets, tasks, budget>>
    /\ UNCHANGED <<fetchCall, clock, source, sentRows, sentArticles, schedVars, crashed>>

\* Start(): a new ticker and the goroutine that selects on it and on s.stop.
\* main calls Start once.
Start ==
    /\ Alive
    /\ ~started
    /\ started' = TRUE
    /\ tickerOn' = TRUE
    /\ loop' = "select"
    /\ stopCalls' = 0
    /\ UNCHANGED <<sideVars, clock, storeVars, tasks, resets, stopClosed, tickPending, pass, crashed,
                   budget>>

\* Stop(): close(s.stop).  Closing a closed channel panics, and nothing recovers
\* the panic, which ends the process.
Stop ==
    /\ Alive
    /\ stopCalls' = IF started THEN stopCalls + 1 ELSE stopCalls
    /\ \/ /\ ~stopClosed
          /\ stopClosed' = TRUE
          /\ UNCHANGED crashed
       \/ /\ stopClosed
          /\ crashed' = "panic: close of closed channel"
          /\ UNCHANGED stopClosed
    /\ UNCHANGED <<sideVars, clock, storeVars, tasks, resets, loop, started, tickPending, tickerOn,
                   pass, budget>>

\* The ticker sends on ticker.C, a channel that holds one tick; a tick that
\* finds it full is dropped.
Tick ==
    /\ Alive
    /\ tickerOn
    /\ ~tickPending
    /\ budget.ticks > 0
    /\ budget' = Spend("ticks")
    /\ tickPending' = TRUE
    /\ UNCHANGED <<sideVars, clock, storeVars, tasks, resets, loop, started, stopClosed, tickerOn,
                   stopCalls, pass, crashed>>

\* The ticker fires while ticker.C still holds a tick: the send does not
\* block and the tick is dropped.
TickDropped ==
    /\ Alive
    /\ tickerOn
    /\ tickPending
    /\ budget.ticks > 0
    /\ budget' = Spend("ticks")
    /\ UNCHANGED <<sideVars, clock, storeVars, tasks, resets, schedVars, crashed>>

\* Mutant of TickReceive: the tick that starts the pass stays in ticker.C.
TickReceive_KeepsTick ==
    /\ Alive
    /\ loop = "select"
    /\ tickPending
    /\ UNCHANGED tickPending
    /\ loop' = "batch"
    /\ pass' = [NoPass EXCEPT !.pc = "users"]
    /\ UNCHANGED <<sideVars, clock, storeVars, tasks, resets, started, stopClosed, tickerOn,
                   stopCalls, crashed, budget>>

\* case <-ticker.C: the receive takes the tick out of the channel and the loop
\* goroutine enters sendNewsUpdates, where it calls GetAllUsers.
TickReceive ==
    /\ Alive
    /\ loop = "select"
    /\ tickPending
    /\ tickPending' = FALSE
    /\ loop' = "batch"
    /\ pass' = [NoPass EXCEPT !.pc = "users"]
    /\ UNCHANGED <<sideVars, clock, storeVars, tasks, resets, started, stopClosed, tickerOn,
                   stopCalls, crashed, budget>>

\* The ids of the rows in the order of the slice GetAllUsers fills.
RECURSIVE IdsInOrder(_)
IdsInOrder(ids) ==
    IF ids = {} THEN <<>>
    ELSE LET least == CHOOSE u \in ids : \A v \in ids : u <= v
         IN  <<least>> \o IdsInOrder(ids \ {least})

\* sendNewsUpdates: GetAllUsers returns.  An error ends the pass; else the rows
\* as they are now are the slice the pass ranges over.
GetAllUsers ==
    /\ Alive
    /\ loop = "batch"
    /\ pass.pc = "users"
    /\ \/ /\ pass' = [pc |-> IF UserIds = {} THEN "wait" ELSE "go",
                      users |-> users, todo |-> IdsInOrder(UserIds)]
          /\ UNCHANGED <<loop, budget>>
       \/ /\ CanFail
          /\ budget' = Spend("faults")
          /\ loop' = "select"
          /\ pass' = NoPass
    /\ UNCHANGED <<sideVars, clock, storeVars, tasks, resets, started, stopClosed, tickPending,
                   tickerOn, stopCalls, crashed>>

\* sendNewsUpdates: one iteration of the range over the rows, wg.Add(1) and the
\* go statement whose goroutine calls ProcessUser(ctx, u, false) with the row
\* of the slice; after the last one the loop goroutine is at wg.Wait.
BatchStart ==
    /\ Alive
    /\ loop = "batch"
    /\ pass.pc = "go"
    /\ LET u == Head(pass.todo)
       IN  /\ tasks' = [tasks EXCEPT ![<<u, "sched">>] = NewTask(u, pass.users[u], FALSE)]
           /\ pass' = [pass EXCEPT !.todo = Tail(@),
                                   !.pc = IF Len(pass.todo) = 1 THEN "wait" ELSE "go"]
    /\ UNCHANGED <<sideVars, clock, storeVars, resets, loop, started, stopClosed, tickPending,
                   tickerOn, stopCalls, crashed, budget>>

\* Mutant of BatchJoin: the pass ends without waiting for its goroutines.
BatchJoin_NoWait ==
    /\ Alive
    /\ loop = "batch"
    /\ pass.pc = "wait"
    /\ loop' = "select"
    /\ pass' = NoPass
    /\ UNCHANGED <<sideVars, clock, storeVars, tasks, resets, started, stopClosed, tickPending,
                   tickerOn, stopCalls, crashed, budget>>

\* wg.Wait() returns once every goroutine of the pass has called wg.Done, and
\* sendNewsUpdates returns to the select.
BatchJoin ==
    /\ Alive
    /\ loop = "batch"
    /\ pass.pc = "wait"
    /\ \A u \in DOMAIN pass.users : tasks[<<u, "sched">>].pc = "done"
    /\ loop' = "select"
    /\ pass' = NoPass
    /\ UNCHANGED <<sideVars, clock, storeVars, tasks, resets, started, stopClosed, tickPending,
                   tickerOn, stopCalls, crashed, budget>>

\* Mutant of LoopStop: the goroutine returns without stopping the ticker.
LoopStop_KeepsTicker ==
    /\ Alive
    /\ loop = "select"
    /\ stopClosed
    /\ loop' = "exited"
    /\ UNCHANGED <<sideVars, clock, storeVars, tasks, resets, started, stopClosed, tickPending,
                   tickerOn, stopCalls, pass, crashed, budget>>

\* case <-s.stop: ticker.Stop() and return.
LoopStop ==
    /\ Alive
    /\ loop = "select"
    /\ stopClosed
    /\ tickerOn' = FALSE
    /\ loop' = "exited"
    /\ UNCHANGED <<sideVars, clock, storeVars, tasks, resets, started, stopClosed, tickPending,
                   stopCalls, pass, crashed, budget>>

----------------------------------------------------------------------------
(* The scheduler over two users, each with one subscription *)

SchedInit ==
    /\ clock = 0
    /\ users = [u \in {1, 2} |->
                   [last |-> <<>>, interval |-> DefaultInterval, limit |-> DefaultNewsLimit]]
    /\ subs = (1 :> <<"sports">>) @@ (2 :> <<"tech">>)
    /\ source = Catalog
    /\ sentRows = {}
    /\ favorites = [u \in DOMAIN users |-> <<>>]
    /\ fetchCall = NoFetch
    /\ joins = NoJoins
    /\ sink = [u \in {1, 2} |-> [a \in {"a", "b"} |-> 0]]
    /\ tasks = NoTasks({1, 2} \X {"sched"})
    /\ resets = [u \in {1, 2} |-> "idle"]
    /\ NewScheduler
    /\ budget = [faults |-> MaxFaults, calls |-> 0, resets |-> 0, ticks |-> MaxTicks,
                 ledgerErrs |-> 0, down |-> FALSE]

SchedNext ==
    \/ Start
    \/ Stop
    \/ Tick
    \/ TickReceive
    \/ GetAllUsers
    \/ BatchStart
    \/ BatchJoin
    \/ LoopStop
    \/ \E t \in TaskIds : Gate(t)
    \/ \E t \in TaskIds : GetSubscriptions(t)
    \/ \E t \in TaskIds : FetchTopic(t)
    \/ \E t \in TaskIds : CheckArticle(t)
    \/ \E t \in TaskIds : CacheRead(t)
    \/ \E t \in TaskIds : MarkArticle(t)
    \/ \E t \in TaskIds : CacheWrite(t)
    \/ \E t \in TaskIds : SendArticle(t)
    \/ \E t \in TaskIds : UpdateLastNotified(t)
    \/ MapRaceFatal
    \/ AdvanceClock

SchedSpec == SchedInit /\ [][SchedNext]_vars

\* The goroutines of the batch pass of SchedInit.
SchedSlots == {1, 2} \X {"sched"}

\* Any step of the ProcessUser invocation t.
TaskStep(t) ==
    \/ Gate(t)
    \/ GetSubscriptions(t)
    \/ FetchTopic(t)
    \/ CheckArticle(t)
    \/ CacheRead(t)
    \/ MarkArticle(t)
    \/ CacheWrite(t)
    \/ SendArticle(t)
    \/ UpdateLastNotified(t)

\* The scheduler started once, a ticker that fires more often than the passes
\* take, one user with a row and a Telegram user who gets a row on the way.
TickInit ==
    /\ clock = 0
    /\ users = [u \in {1} |->
                   [last |-> <<>>, interval |-> DefaultInterval, limit |-> DefaultNewsLimit]]
    /\ subs = [u \in {1} |-> <<"tech">>]
    /\ source = Catalog
    /\ sentRows = {}
    /\ favorites = [u \in DOMAIN users |-> <<>>]
    /\ fetchCall = NoFetch
    /\ joins = NoJoins
    /\ sink = [u \in {1} |-> [a \in {"a", "b"} |-> 0]]
    /\ tasks = NoTasks({1} \X {"sched"})
    /\ resets = [u \in {1} |-> "idle"]
    /\ NewScheduler
    /\ budget = [faults |-> 1, calls |-> 0, resets |-> 0, ticks |-> MaxTicks + 1,
                 ledgerErrs |-> 0, down |-> FALSE]

TickNext ==
    \/ Start
    \/ Tick
    \/ TickDropped
    \/ TickReceive
    \/ GetAllUsers
    \/ BatchStart
    \/ BatchJoin
    \/ \E c \in Newcomers : FindOrCreateUser(c)
    \/ \E c \in Newcomers : CreateUser(c)
    \/ \E t \in TaskIds : TaskStep(t)
    \/ AdvanceClock

TickSpec == TickInit /\ [][TickNext]_vars

\* The Go scheduler runs every goroutine that can run: each ProcessUser
\* invocation and sendNewsUpdates take their next step once they can.  A select
\* with several ready cases picks one at random, so the stop case, ready every
\* time the loop comes back to its select, is taken in the end.
SchedFairness ==
    /\ \A t \in SchedSlots : WF_vars(TaskStep(t))
    /\ WF_vars(GetAllUsers)
    /\ WF_vars(BatchStart)
    /\ WF_vars(BatchJoin)
    /\ SF_vars(LoopStop)

SchedFairSpec == SchedSpec /\ SchedFairness

----------------------------------------------------------------------------
(* The engine on a long feed: one user, one topic, one invocation at a time *)

FeedUrls == <<"n1", "n2", "n3", "n4", "n5", "n6", "n7", "n8", "n9", "n10">>
Feed == [i \in 1..FeedSize |-> [url |-> FeedUrls[i], publishedAt |-> 0 - 10 * MinutesPerDay]]

\* An unset limit, a limit below the feed size, and the default written out.
FeedLimits == {0, 2, 5}

FeedInit ==
    /\ clock = 0
    /\ \E l \in FeedLimits :
          users = [u \in {1} |-> [last |-> <<>>, interval |-> DefaultInterval, limit |-> l]]
    /\ subs = [u \in {1} |-> <<"world">>]
    /\ source = [tp \in {"world"} |-> Feed]
    /\ sentRows = {}
    /\ favorites = [u \in DOMAIN users |-> <<>>]
    /\ fetchCall = NoFetch
    /\ joins = NoJoins
    /\ sink = [u \in {1} |-> [a \in {FeedUrls[i] : i \in 1..FeedSize} |-> 0]]
    /\ tasks = NoTasks({1} \X {"sched"})
    /\ resets = [u \in {1} |-> "idle"]
    /\ NewScheduler
    /\ budget = [faults |-> MaxFaults, calls |-> MaxCalls, resets |-> 0, ticks |-> 0,
                 ledgerErrs |-> 0, down |-> FALSE]

FeedNext ==
    \/ \E u \in UserIds, force \in BOOLEAN : ProcessUserCall(u, force)
    \/ \E t \in TaskIds : Gate(t)
    \/ \E t \in TaskIds : GetSubscriptions(t)
    \/ \E t \in TaskIds : FetchTopic(t)
    \/ \E t \in TaskIds : CheckArticle(t)
    \/ \E t \in TaskIds : CacheRead(t)
    \/ \E t \in TaskIds : MarkArticle(t)
    \/ \E t \in TaskIds : CacheWrite(t)
    \/ \E t \in TaskIds : SendArticle(t)
    \/ \E t \in TaskIds : UpdateLastNotified(t)
    \/ AdvanceClock

FeedSpec == FeedInit /\ [][FeedNext]_vars

----------------------------------------------------------------------------
(* The ledger operations next to a pass: one user subscribed to "sports",   *)
(* with a scheduled ProcessUser, IsArticleSent, MarkArticleAsSent and       *)
(* ResetSentArticlesHistory goroutines                                       *)

\* The URLs the search handler asks about and marks.
LedgerUrls == {"a"}

LedgerInit ==
    /\ clock = 0
    /\ users = [u \in {1} |-> [last |-> <<>>, interval |-> DefaultInterval, limit |-> 1]]
    /\ subs = [u \in {1} |-> <<"sports">>]
    /\ source = Catalog
    /\ sentRows = {}
    /\ favorites = [u \in DOMAIN users |-> <<>>]
    /\ fetchCall = NoFetch
    /\ joins = NoJoins
    /\ sink = [u \in {1} |-> [a \in {"a", "b"} |-> 0]]
    /\ tasks = NoTasks({1} \X {"sched", "seen", "mark"})
    /\ resets = [u \in {1} |-> "idle"]
    /\ NewScheduler
    /\ budget = [faults |-> MaxFaults, calls |-> MaxCalls + 1, resets |-> 1, ticks |-> 0,
                 ledgerErrs |-> 0, down |-> FALSE]

LedgerNext ==
    \/ \E u \in UserIds : ProcessUserCall(u, FALSE)
    \/ \E u \in UserIds, url \in LedgerUrls : IsArticleSentCall(u, url)
    \/ \E u \in UserIds, url \in LedgerUrls : MarkArticleAsSentCall(u, url)
    \/ \E t \in TaskIds : TaskStep(t)
    \/ \E t \in TaskIds : SeenLedgerRead(t)
    \/ \E t \in TaskIds : SeenCacheRead(t)
    \/ \E t \in TaskIds : MarkSentLedger(t)
    \/ \E t \in TaskIds : MarkSentAgain(t)
    \/ \E t \in TaskIds : MarkSentCacheWrite(t)
    \/ \E u \in UserIds : ResetHistory(u)
    \/ \E u \in UserIds : ResetMapWrite(u)
    \/ MapRaceFatal
    \/ AdvanceClock

LedgerSpec == LedgerInit /\ [][LedgerNext]_vars

----------------------------------------------------------------------------
(* A pass while the sent_articles table cannot be reached: one user, one     *)
(* topic whose feed has one article more than maxCacheSize; the i-th URL of  *)
(* the feed is written i                                                     *)

OutageFeed ==
    [i \in 1..(maxCacheSize + 1) |-> [url |-> i, publishedAt |-> 0 - 10 * MinutesPerDay]]

OutageInit ==
    /\ clock = 0
    /\ users = [u \in {1} |->
                   [last |-> <<>>, interval |-> DefaultInterval, limit |-> DefaultNewsLimit]]
    /\ subs = [u \in {1} |-> <<"world">>]
    /\ source = [tp \in {"world"} |-> OutageFeed]
    /\ sentRows = {}
    /\ favorites = [u \in DOMAIN users |-> <<>>]
    /\ fetchCall = NoFetch
    /\ joins = NoJoins
    /\ sink = [u \in {1} |-> [a \in 1..(maxCacheSize + 1) |-> 0]]
    /\ tasks = NoTasks({1} \X {"sched"})
    /\ resets = [u \in {1} |-> "idle"]
    /\ NewScheduler
    /\ budget = [faults |-> 0, calls |-> MaxCalls, resets |-> 0, ticks |-> 0,
                 ledgerErrs |-> 0, down |-> TRUE]

OutageNext ==
    \/ \E u \in UserIds : ProcessUserCall(u, FALSE)
    \/ \E t \in TaskIds : TaskStep(t)
    \/ AdvanceClock

OutageSpec == OutageInit /\ [][OutageNext]_vars

----------------------------------------------------------------------------
(* Two users: user 2 has been served by a pass at time 0 in which the ledger *)
(* write of b failed, and is idle; a pass, MarkArticleAsSent and             *)
(* ResetSentArticlesHistory run for user 1                                   *)

FrameInit ==
    /\ clock = 0
    /\ users = (1 :> [last |-> <<>>, interval |-> DefaultInterval, limit |-> 1])
                @@ (2 :> [last |-> <<0>>, interval |-> DefaultInterval, limit |-> 1])
    /\ subs = (1 :> <<"sports", "tech">>) @@ (2 :> <<"tech">>)
    /\ source = Catalog
    /\ sentRows = {<<2, "a">>}
    /\ favorites = [u \in DOMAIN users |-> <<>>]
    /\ fetchCall = NoFetch
    /\ joins = NoJoins
    /\ sink = (1 :> [a \in {"a", "b"} |-> 0]) @@ (2 :> [a \in {"a", "b"} |-> IF a = "b" THEN 1 ELSE 0])
    /\ tasks = NoTasks({1} \X {"sched", "mark"})
    /\ resets = [u \in {1, 2} |-> "idle"]
    /\ sentArticles = (TopicKey(2, "b") :> {"b"})
    /\ loop = "none"
    /\ started = FALSE
    /\ stopClosed = FALSE
    /\ tickPending = FALSE
    /\ tickerOn = FALSE
    /\ stopCalls = 0
    /\ pass = NoPass
    /\ crashed = "no"
    /\ budget = [faults |-> MaxFaults, calls |-> MaxCalls, resets |-> 1, ticks |-> 0,
                 ledgerErrs |-> 0, down |-> FALSE]

FrameNext ==
    \/ ProcessUserCall(1, FALSE)
    \/ \E url \in {"a", "b"} : MarkArticleAsSentCall(1, url)
    \/ \E t \in TaskIds : TaskStep(t)
    \/ \E t \in TaskIds : MarkSentLedger(t)
    \/ \E t \in TaskIds : MarkSentAgain(t)
    \/ \E t \in TaskIds : MarkSentCacheWrite(t)
    \/ ResetHistory(1)
    \/ ResetMapWrite(1)
    \/ MapRaceFatal
    \/ AdvanceClock

FrameSpec == FrameInit /\ [][FrameNext]_vars

\* The public operations of the scheduler on the sent-article state, called by
\* the handlers for user 1 while user 2 has a row of article a in the ledger.
MarkSeenUrls == {"a", "b"}

MarkSeenInit ==
    /\ clock = 0
    /\ users = [u \in {1, 2} |-> [last |-> <<>>, interval |-> DefaultInterval, limit |-> 1]]
    /\ subs = [u \in {1, 2} |-> <<"sports">>]
    /\ source = Catalog
    /\ sentRows = {<<2, "a">>}
    /\ favorites = [u \in DOMAIN users |-> <<>>]
    /\ fetchCall = NoFetch
    /\ joins = NoJoins
    /\ sink = [u \in {1, 2} |-> [a \in {"a", "b"} |-> 0]]
    /\ tasks = NoTasks({1} \X {"seen", "mark"})
    /\ resets = [u \in {1, 2} |-> "idle"]
    /\ NewScheduler
    /\ budget = [faults |-> 1, calls |-> MaxCalls + 2, resets |-> 1, ticks |-> 0,
                 ledgerErrs |-> 0, down |-> FALSE]

MarkSeenNext ==
    \/ \E url \in MarkSeenUrls : IsArticleSentCall(1, url)
    \/ \E url \in MarkSeenUrls : MarkArticleAsSentCall(1, url)
    \/ \E t \in TaskIds : SeenLedgerRead(t)
    \/ \E t \in TaskIds : SeenCacheRead(t)
    \/ \E t \in TaskIds : MarkSentLedger(t)
    \/ \E t \in TaskIds : MarkSentAgain(t)
    \/ \E t \in TaskIds : MarkSentCacheWrite(t)
    \/ ResetHistory(1)
    \/ ResetMapWrite(1)
    \/ MapRaceFatal

MarkSeenSpec == MarkSeenInit /\ [][MarkSeenNext]_vars

\* handleGetNewsNow: the goroutine that calls ProcessUser(processCtx, *user, true)
\* on the row the handler was given.
GetNewsNowCall(u) ==
    LET t == <<u, "forced">>
    IN  /\ Alive
        /\ t \in TaskIds
        /\ tasks[t].pc \in {"idle", "replied"}
        /\ budget.calls > 0
        /\ budget' = Spend("calls")
        /\ tasks' = [tasks EXCEPT ![t] = NewTask(u, users[u], TRUE)]
        /\ UNCHANGED <<sideVars, clock, storeVars, resets, schedVars, crashed>>

\* handleGetNewsNow after ProcessUser returned: if newsSent == 0, the message
\* that no fresh news was found is sent.
GetNewsNowReply(t) ==
    /\ Alive
    /\ t[2] = "forced"
    /\ tasks[t].pc = "done"
    /\ tasks' = [tasks EXCEPT ![t] =
                     [tasks[t] EXCEPT !.pc = "replied", !.notice = (tasks[t].ret = 0)]]
    /\ UNCHANGED <<sideVars, clock, storeVars, resets, schedVars, crashed, budget>>

\* A user with one subscription, whose topic has two fresh articles, asks for
\* the news now.
ForcedFeed == SubSeq(Feed, 1, 2)

ForcedInit ==
    /\ clock = 0
    /\ users = [u \in {1} |->
                   [last |-> <<>>, interval |-> DefaultInterval, limit |-> DefaultNewsLimit]]
    /\ subs = [u \in {1} |-> <<"world">>]
    /\ source = [tp \in {"world"} |-> ForcedFeed]
    /\ sentRows = {}
    /\ favorites = [u \in DOMAIN users |-> <<>>]
    /\ fetchCall = NoFetch
    /\ joins = NoJoins
    /\ sink = [u \in {1} |-> [a \in {FeedUrls[i] : i \in 1..2} |-> 0]]
    /\ tasks = NoTasks({1} \X {"forced"})
    /\ resets = [u \in {1} |-> "idle"]
    /\ NewScheduler
    /\ budget = [faults |-> MaxFaults, calls |-> MaxCalls, resets |-> 0, ticks |-> 0,
                 ledgerErrs |-> 0, down |-> FALSE]

ForcedNext ==
    \/ \E u \in UserIds : GetNewsNowCall(u)
    \/ \E t \in TaskIds : TaskStep(t)
    \/ \E t \in TaskIds : GetNewsNowReply(t)
    \/ AdvanceClock

ForcedSpec == ForcedInit /\ [][ForcedNext]_vars

\* Callers that do not overlap: a ProcessUser call for a user begins when no
\* invocation of that user is in progress.  handleResetHistory starts its
\* goroutine whenever the button is pressed, beside a call or not.
SerialCall(u, force) ==
    /\ \A t \in TaskIds : t[1] = u => tasks[t].pc \in {"idle", "done"}
    /\ ProcessUserCall(u, force)

\* What the Article Source answers: article a twice for sports and once more
\* for tech.
SerialCatalog == ("sports" :> <<ArtA, ArtA>>) @@ ("tech" :> <<ArtB, ArtA>>)

\* User 1, limit 1, subscribed to sports and tech, which both return article a.
SerialInit ==
    /\ clock = 0
    /\ users = [u \in {1} |-> [last |-> <<>>, interval |-> DefaultInterval, limit |-> 1]]
    /\ subs = [u \in {1} |-> <<"sports", "tech">>]
    /\ source = SerialCatalog
    /\ sentRows = {}
    /\ favorites = [u \in DOMAIN users |-> <<>>]
    /\ fetchCall = NoFetch
    /\ joins = NoJoins
    /\ sink = [u \in {1} |-> [a \in {"a", "b"} |-> 0]]
    /\ tasks = NoTasks({1} \X {"sched", "forced"})
    /\ resets = [u \in {1} |-> "idle"]
    /\ NewScheduler
    /\ budget = [faults |-> MaxFaults, calls |-> MaxCalls, resets |-> MaxResets,
                 ticks |-> 0, ledgerErrs |-> 0, down |-> FALSE]

SerialNext ==
    \/ \E u \in UserIds, force \in BOOLEAN : SerialCall(u, force)
    \/ \E t \in TaskIds : TaskStep(t)
    \/ \E u \in UserIds : ResetHistory(u)
    \/ \E u \in UserIds : ResetMapWrite(u)
    \/ MapRaceFatal
    \/ AdvanceClock

SerialSpec == SerialInit /\ [][SerialNext]_vars

\* The buttons of the settings menu: minutes between deliveries, articles per
\* delivery.
IntervalChoices == {60, 180, 360, 1440}
LimitChoices == {3, 5, 10, 15}

\* handleIntervalCallback: UpdateUserNotificationInterval updates the column
\* notification_interval_minutes of the row where id = u.
UpdateUserNotificationInterval(u, minutes) ==
    /\ Alive
    /\ budget.calls > 0
    /\ \/ /\ users' = [users EXCEPT ![u].interval = minutes]
          /\ budget' = Spend("calls")
       \/ /\ CanFail
          /\ budget' = [budget EXCEPT !.calls = @ - 1, !.faults = @ - 1]
          /\ UNCHANGED users
    /\ UNCHANGED <<sideVars, clock, subs, source, sentRows, sentArticles, sink, tasks, resets,
                   schedVars, crashed>>

\* handleNewsLimitCallback: UpdateUserNewsLimit updates the column news_limit
\* of the row where id = u.
UpdateUserNewsLimit(u, limit) ==
    /\ Alive
    /\ budget.calls > 0
    /\ \/ /\ users' = [users EXCEPT ![u].limit = limit]
          /\ budget' = Spend("calls")
       \/ /\ CanFail
          /\ budget' = [budget EXCEPT !.calls = @ - 1, !.faults = @ - 1]
          /\ UNCHANGED users
    /\ UNCHANGED <<sideVars, clock, subs, source, sentRows, sentArticles, sink, tasks, resets,
                   schedVars, crashed>>

\* A user delivered to at time 0 with limit 1 changes the settings while passes
\* run over a topic of three fresh articles.
SettingsFeed == SubSeq(Feed, 1, 3)

SettingsInit ==
    /\ clock = 0
    /\ users = [u \in {1} |-> [last |-> <<0>>, interval |-> DefaultInterval, limit |-> 1]]
    /\ subs = [u \in {1} |-> <<"world">>]
    /\ source = [tp \in {"world"} |-> SettingsFeed]
    /\ sentRows = {}
    /\ favorites = [u \in DOMAIN users |-> <<>>]
    /\ fetchCall = NoFetch
    /\ joins = NoJoins
    /\ sink = [u \in {1} |-> [a \in {FeedUrls[i] : i \in 1..3} |-> 0]]
    /\ tasks = NoTasks({1} \X {"sched"})
    /\ resets = [u \in {1} |-> "idle"]
    /\ NewScheduler
    /\ budget = [faults |-> 1, calls |-> MaxCalls + 1, resets |-> 0, ticks |-> 0,
                 ledgerErrs |-> 0, down |-> FALSE]

SettingsNext ==
    \/ \E u \in UserIds : ProcessUserCall(u, FALSE)
    \/ \E t \in TaskIds : TaskStep(t)
    \/ \E u \in UserIds, minutes \in IntervalChoices : UpdateUserNotificationInterval(u, minutes)
    \/ \E u \in UserIds, limit \in LimitChoices : UpdateUserNewsLimit(u, limit)
    \/ \E c \in Newcomers : FindOrCreateUser(c)
    \/ \E c \in Newcomers : CreateUser(c)
    \/ AdvanceClock

SettingsSpec == SettingsInit /\ [][SettingsNext]_vars

\* Mutant of FavoriteCount: the count leaves out the condition on the user.
FavoriteCount_AnyUser(favs, u, url) ==
    Cardinality({x \in {<<v, i>> : v \in DOMAIN favs, i \in 1..MaxCalls + 2} :
                    x[2] <= Len(favs[x[1]]) /\ favs[x[1]][x[2]] = url})

\* Count(&count) where user_id = u and article_url = url, over the rows of
\* favorite_articles that are not deleted.
FavoriteCount(favs, u, url) ==
    Cardinality({i \in 1..Len(favs[u]) : favs[u][i] = url})

\* The "add to favorites" button of an article message: handleAddToFavorites,
\* run in the goroutine of its update, is about to ask IsFavoriteArticle.
HandleAddToFavorites(u, k, url) ==
    LET t == <<u, k>>
    IN  /\ Alive
        /\ t \in TaskIds
        /\ k \in {"favA", "favB"}
        /\ tasks[t].pc \in {"idle", "done"}
        /\ budget.calls > 0
        /\ budget' = Spend("calls")
        /\ tasks' = [tasks EXCEPT ![t] =
                         [IdleTask EXCEPT !.pc = "fIs", !.user.id = u,
                                          !.arts = <<ArticleOf(url)>>, !.ai = 1]]
        /\ UNCHANGED <<sideVars, clock, storeVars, resets, schedVars, crashed>>

\* handleAddToFavorites: IsFavoriteArticle; on an error or on the answer true
\* the handler answers the callback and returns, else it goes on to
\* AddFavoriteArticle.
FavoriteAskStep(t) ==
    /\ Alive
    /\ tasks[t].pc = "fIs"
    /\ LET r == tasks[t]
       IN  \/ /\ tasks' = [tasks EXCEPT ![t] =
                     IF FavoriteCount(favorites, r.user.id, r.arts[1].url) > 0
                     THEN [r EXCEPT !.pc = "done", !.ans = TRUE]
                     ELSE [r EXCEPT !.pc = "fCount"]]
              /\ UNCHANGED budget
           \/ /\ CanFail
              /\ budget' = Spend("faults")
              /\ tasks' = [tasks EXCEPT ![t] = [r EXCEPT !.pc = "done", !.err = TRUE]]
    /\ UNCHANGED <<sideVars, clock, storeVars, resets, schedVars, crashed>>

\* A direct call of the repository's AddFavoriteArticle, about to count.
AddFavoriteArticleCall(u, k, url) ==
    LET t == <<u, k>>
    IN  /\ Alive
        /\ t \in TaskIds
        /\ k \in {"favA", "favB"}
        /\ tasks[t].pc \in {"idle", "done"}
        /\ budget.calls > 0
        /\ budget' = Spend("calls")
        /\ tasks' = [tasks EXCEPT ![t] =
                         [IdleTask EXCEPT !.pc = "fCount", !.user.id = u,
                                          !.arts = <<ArticleOf(url)>>, !.ai = 1]]
        /\ UNCHANGED <<sideVars, clock, storeVars, resets, schedVars, crashed>>

\* AddFavoriteArticle: the count, whose error is returned, and the error
\* "article is already in favorites" when a row was counted.
FavoriteCountStep(t) ==
    /\ Alive
    /\ tasks[t].pc = "fCount"
    /\ LET r == tasks[t]
       IN  \/ /\ tasks' = [tasks EXCEPT ![t] =
                     IF FavoriteCount(favorites, r.user.id, r.arts[1].url) > 0
                     THEN [r EXCEPT !.pc = "done", !.err = TRUE]
                     ELSE [r EXCEPT !.pc = "fCreate"]]
              /\ UNCHANGED budget
           \/ /\ CanFail
              /\ budget' = Spend("faults")
              /\ tasks' = [tasks EXCEPT ![t] = [r EXCEPT !.pc = "done", !.err = TRUE]]
    /\ UNCHANGED <<sideVars, clock, storeVars, resets, schedVars, crashed>>

\* AddFavoriteArticle: Create(&favoriteArticle), whose error is returned.
FavoriteCreate(t) ==
    /\ Alive
    /\ tasks[t].pc = "fCreate"
    /\ LET r == tasks[t]
       IN  \/ /\ favorites' = [favorites EXCEPT ![r.user.id] = Append(@, r.arts[1].url)]
              /\ tasks' = [tasks EXCEPT ![t] = [r EXCEPT !.pc = "done"]]
              /\ UNCHANGED budget
           \/ /\ CanFail
              /\ budget' = Spend("faults")
              /\ tasks' = [tasks EXCEPT ![t] = [r EXCEPT !.pc = "done", !.err = TRUE]]
              /\ UNCHANGED favorites
    /\ UNCHANGED <<fetchCall, joins, clock, storeVars, resets, schedVars, crashed>>

\* IsFavoriteArticle: count > 0 and nil, or false and the error of the count.
IsFavoriteArticle(u, url) ==
    LET t == <<u, "isFav">>
        asked == [IdleTask EXCEPT !.pc = "done", !.user.id = u,
                                  !.arts = <<ArticleOf(url)>>, !.ai = 1]
    IN  /\ Alive
        /\ t \in TaskIds
        /\ budget.calls > 0
        /\ \/ /\ tasks' = [tasks EXCEPT ![t] =
                     [asked EXCEPT !.ans = (FavoriteCount(favorites, u, url) > 0)]]
              /\ budget' = Spend("calls")
           \/ /\ CanFail
              /\ budget' = [budget EXCEPT !.calls = @ - 1, !.faults = @ - 1]
              /\ tasks' = [tasks EXCEPT ![t] = [asked EXCEPT !.err = TRUE]]
        /\ UNCHANGED <<sideVars, clock, storeVars, resets, schedVars, crashed>>

\* RemoveFavoriteArticle: one delete where user_id = u and article_url = url;
\* an error when the statement failed or no row was affected.
RemoveFavoriteArticle(u, url) ==
    LET t == <<u, "favRem">>
        asked == [IdleTask EXCEPT !.pc = "done", !.user.id = u,
                                  !.arts = <<ArticleOf(url)>>, !.ai = 1]
    IN  /\ Alive
        /\ t \in TaskIds
        /\ budget.calls > 0
        /\ \/ /\ favorites' = [favorites EXCEPT ![u] = SelectSeq(@, LAMBDA x : x # url)]
              /\ tasks' = [tasks EXCEPT ![t] =
                     [asked EXCEPT !.err = (FavoriteCount(favorites, u, url) = 0)]]
              /\ budget' = Spend("calls")
           \/ /\ CanFail
              /\ budget' = [budget EXCEPT !.calls = @ - 1, !.faults = @ - 1]
              /\ tasks' = [tasks EXCEPT ![t] = [asked EXCEPT !.err = TRUE]]
              /\ UNCHANGED favorites
        /\ UNCHANGED <<fetchCall, joins, clock, storeVars, resets, schedVars, crashed>>

\* User 1 presses the favorites buttons of articles a and b, two updates being
\* handled at a time, while user 2 has article b among its favorites.
FavUrls == {"a", "b"}

FavInit ==
    /\ clock = 0
    /\ users = [u \in {1, 2} |-> [last |-> <<>>, interval |-> DefaultInterval, limit |-> 1]]
    /\ subs = [u \in {1, 2} |-> <<>>]
    /\ source = Catalog
    /\ sentRows = {}
    /\ favorites = (1 :> <<>>) @@ (2 :> <<"b">>)
    /\ fetchCall = NoFetch
    /\ joins = NoJoins
    /\ sink = [u \in {1, 2} |-> [a \in {"a", "b"} |-> 0]]
    /\ tasks = NoTasks({1} \X {"favA", "favB", "isFav", "favRem"})
    /\ resets = [u \in {1, 2} |-> "idle"]
    /\ NewScheduler
    /\ budget = [faults |-> 1, calls |-> MaxCalls + 1, resets |-> 0, ticks |-> 0,
                 ledgerErrs |-> 0, down |-> FALSE]

FavNext ==
    \/ \E k \in {"favA", "favB"}, url \in FavUrls : HandleAddToFavorites(1, k, url)
    \/ \E k \in {"favA", "favB"}, url \in FavUrls : AddFavoriteArticleCall(1, k, url)
    \/ \E t \in TaskIds : FavoriteAskStep(t)
    \/ \E t \in TaskIds : FavoriteCountStep(t)
    \/ \E t \in TaskIds : FavoriteCreate(t)
    \/ \E url \in FavUrls : IsFavoriteArticle(1, url)
    \/ \E url \in FavUrls : RemoveFavoriteArticle(1, url)

FavSpec == FavInit /\ [][FavNext]_vars

\* What a provider call returns: (nil, err), or its articles and nil.
ProviderFailed == [ok |-> FALSE, arts |-> <<>>]
ProviderAnswer(first, n) == [ok |-> TRUE, arts |-> SubSeq(Feed, first, first + n - 1)]

\* The answers of GNews and of News API to the topic, on different articles.
GNewsAnswers == {ProviderFailed} \cup {ProviderAnswer(1, n) : n \in 0..MaxAnswer}
NewsAPIAnswers == {ProviderFailed} \cup {ProviderAnswer(MaxAnswer + 1, n) : n \in 0..MaxAnswer}

\* What FetchNews returns: (nil, err), or the articles and nil.
FetchError == [err |-> TRUE, arts |-> <<>>]
FetchResult(arts) == [err |-> FALSE, arts |-> arts]

\* The end of FetchNews, reached when the secondary was not asked or failed:
\* the error when the primary call failed, else the primary's articles.
FetchFallThrough(primary) ==
    IF ~primary.ok THEN FetchError ELSE FetchResult(primary.arts)

\* FetchNews: the test for an empty topic.
FetchNewsStart ==
    /\ Alive
    /\ fetchCall.pc = "called"
    /\ fetchCall' =
           IF fetchCall.topic = ""
           THEN [fetchCall EXCEPT !.pc = "returned", !.out = FetchError]
           ELSE [fetchCall EXCEPT !.pc = "primary"]
    /\ UNCHANGED <<favorites, joins, clock, storeVars, tasks, resets, schedVars, crashed, budget>>

\* Mutant of FetchFromGNews: News API is asked whether or not its key is set.
FetchFromGNews_NoKeyTest ==
    /\ Alive
    /\ fetchCall.pc = "primary"
    /\ LET got == fetchCall.primary
           c == [fetchCall EXCEPT !.asked = Append(@, "GNews")]
       IN  fetchCall' =
               IF got.ok /\ Len(got.arts) > 0
               THEN [c EXCEPT !.pc = "returned", !.out = FetchResult(got.arts)]
               ELSE [c EXCEPT !.pc = "secondary"]
    /\ UNCHANGED <<favorites, joins, clock, storeVars, tasks, resets, schedVars, crashed, budget>>

\* FetchNews: the call of FetchNewsFromGNews; its articles are returned when it
\* succeeded with at least one; else News API is asked if f.NewsAPIKey is set.
FetchFromGNews ==
    /\ Alive
    /\ fetchCall.pc = "primary"
    /\ LET got == fetchCall.primary
           c == [fetchCall EXCEPT !.asked = Append(@, "GNews")]
       IN  fetchCall' =
               IF got.ok /\ Len(got.arts) > 0
               THEN [c EXCEPT !.pc = "returned", !.out = FetchResult(got.arts)]
               ELSE IF fetchCall.key # ""
                    THEN [c EXCEPT !.pc = "secondary"]
                    ELSE [c EXCEPT !.pc = "returned", !.out = FetchFallThrough(got)]
    /\ UNCHANGED <<favorites, joins, clock, storeVars, tasks, resets, schedVars, crashed, budget>>

\* FetchNews: the call of FetchNewsFromNewsAPI, whose articles are returned if
\* err2 == nil, and the end of the function otherwise.
FetchFromNewsAPI ==
    /\ Alive
    /\ fetchCall.pc = "secondary"
    /\ LET got == fetchCall.secondary
           c == [fetchCall EXCEPT !.asked = Append(@, "NewsAPI")]
       IN  fetchCall' =
               IF got.ok
               THEN [c EXCEPT !.pc = "returned", !.out = FetchResult(got.arts)]
               ELSE [c EXCEPT !.pc = "returned", !.out = FetchFallThrough(fetchCall.primary)]
    /\ UNCHANGED <<favorites, joins, clock, storeVars, tasks, resets, schedVars, crashed, budget>>

\* One FetchNews call for every topic, News API key and pair of provider answers.
FetchInit ==
    /\ clock = 0
    /\ users = [u \in {1} |-> [last |-> <<>>, interval |-> DefaultInterval, limit |-> 1]]
    /\ subs = [u \in {1} |-> <<>>]
    /\ source = Catalog
    /\ sentRows = {}
    /\ favorites = [u \in DOMAIN users |-> <<>>]
    /\ \E topic \in {"", "go"}, key \in {"", "k"},
          primary \in GNewsAnswers, secondary \in NewsAPIAnswers :
          fetchCall = [pc |-> "called", topic |-> topic, key |-> key,
                       primary |-> primary, secondary |-> secondary,
                       asked |-> <<>>, out |-> FetchError]
    /\ joins = NoJoins
    /\ sink = [u \in {1} |-> [a \in {"a", "b"} |-> 0]]
    /\ tasks = NoTasks({1} \X {"sched"})
    /\ resets = [u \in {1} |-> "idle"]
    /\ NewScheduler
    /\ budget = [faults |-> 0, calls |-> 0, resets |-> 0, ticks |-> 0,
                 ledgerErrs |-> 0, down |-> FALSE]

FetchNext ==
    \/ FetchNewsStart
    \/ FetchFromGNews
    \/ FetchFromNewsAPI

FetchSpec == FetchInit /\ [][FetchNext]_vars

\* strings.ToLower on the topics a user types.
TopicInputs == {"Tech", "tech", "Go"}

ToLower(topic) ==
    CASE topic = "Tech" -> "tech"
      [] topic = "Go" -> "go"
      [] OTHER -> topic

\* Count(&count) where user_id = u and topic = topic, over the rows of subscriptions.
SubscriptionCount(rows, topic) == Cardinality({i \in 1..Len(rows) : rows[i] = topic})

\* handleSubscribe, run in the goroutine of its update: AddSubscription lowers
\* the topic and is about to count the rows of (user, topic).
AddSubscriptionCall(u, k, topic) ==
    LET t == <<u, k>>
    IN  /\ Alive
        /\ t \in TaskIds
        /\ tasks[t].pc \in {"idle", "done"}
        /\ budget.calls > 0
        /\ budget' = Spend("calls")
        /\ tasks' = [tasks EXCEPT ![t] =
                         [IdleTask EXCEPT !.pc = "sCount", !.user.id = u,
                                          !.topics = <<ToLower(topic)>>]]
        /\ UNCHANGED <<sideVars, clock, storeVars, resets, schedVars, crashed>>

\* AddSubscription: the count, whose error is not read (count stays 0), and the
\* return of the error when a row was counted.
SubscriptionCountStep(t) ==
    /\ Alive
    /\ tasks[t].pc = "sCount"
    /\ LET r == tasks[t]
       IN  \/ /\ tasks' = [tasks EXCEPT ![t] =
                     IF SubscriptionCount(subs[r.user.id], r.topics[1]) > 0
                     THEN [r EXCEPT !.pc = "done", !.err = TRUE]
                     ELSE [r EXCEPT !.pc = "sCreate"]]
              /\ UNCHANGED budget
           \/ /\ CanFail
              /\ budget' = Spend("faults")
              /\ tasks' = [tasks EXCEPT ![t] = [r EXCEPT !.pc = "sCreate"]]
    /\ UNCHANGED <<sideVars, clock, storeVars, resets, schedVars, crashed>>

\* AddSubscription: Create(&subscription), whose error is returned.
SubscriptionCreate(t) ==
    /\ Alive
    /\ tasks[t].pc = "sCreate"
    /\ LET r == tasks[t]
       IN  \/ /\ subs' = [subs EXCEPT ![r.user.id] = Append(@, r.topics[1])]
              /\ tasks' = [tasks EXCEPT ![t] = [r EXCEPT !.pc = "done"]]
              /\ UNCHANGED budget
           \/ /\ CanFail
              /\ budget' = Spend("faults")
              /\ tasks' = [tasks EXCEPT ![t] = [r EXCEPT !.pc = "done", !.err = TRUE]]
              /\ UNCHANGED subs
    /\ UNCHANGED <<sideVars, clock, users, source, sentRows, sentArticles, sink, resets, schedVars, crashed>>

\* RemoveSubscription: one delete where user_id = u and topic = lower(topic);
\* an error when the statement failed or no row was affected.
RemoveSubscription(u, topic) ==
    LET t == <<u, "rem">>
        low == ToLower(topic)
    IN  /\ Alive
        /\ t \in TaskIds
        /\ tasks[t].pc \in {"idle", "done"}
        /\ budget.calls > 0
        /\ \/ /\ subs' = [subs EXCEPT ![u] = SelectSeq(@, LAMBDA x : x # low)]
              /\ tasks' = [tasks EXCEPT ![t] =
                     [IdleTask EXCEPT !.pc = "done", !.user.id = u, !.topics = <<low>>,
                                      !.err = (SubscriptionCount(subs[u], low) = 0)]]
              /\ budget' = Spend("calls")
           \/ /\ CanFail
              /\ budget' = [budget EXCEPT !.calls = @ - 1, !.faults = @ - 1]
              /\ tasks' = [tasks EXCEPT ![t] =
                     [IdleTask EXCEPT !.pc = "done", !.user.id = u, !.topics = <<low>>,
                                      !.err = TRUE]]
              /\ UNCHANGED subs
        /\ UNCHANGED <<sideVars, clock, users, source, sentRows, sentArticles, sink, resets, schedVars, crashed>>

\* Updates are handled each in a goroutine of its own: two subscribe requests
\* and one unsubscribe request of user 1 may be in progress together.
SubsInit ==
    /\ clock = 0
    /\ users = [u \in {1} |-> [last |-> <<>>, interval |-> DefaultInterval, limit |-> 1]]
    /\ subs = [u \in {1} |-> <<>>]
    /\ source = Catalog
    /\ sentRows = {}
    /\ favorites = [u \in DOMAIN users |-> <<>>]
    /\ fetchCall = NoFetch
    /\ joins = NoJoins
    /\ sink = [u \in {1} |-> [a \in {"a", "b"} |-> 0]]
    /\ tasks = NoTasks({1} \X {"addA", "addB", "rem"})
    /\ resets = [u \in {1} |-> "idle"]
    /\ NewScheduler
    /\ budget = [faults |-> 1, calls |-> MaxCalls + 1, resets |-> 0, ticks |-> 0,
                 ledgerErrs |-> 0, down |-> FALSE]

SubsNext ==
    \/ \E u \in UserIds, k \in {"addA", "addB"}, topic \in TopicInputs :
           AddSubscriptionCall(u, k, topic)
    \/ \E t \in TaskIds : SubscriptionCountStep(t)
    \/ \E t \in TaskIds : SubscriptionCreate(t)
    \/ \E u \in UserIds, topic \in TopicInputs : RemoveSubscription(u, topic)

SubsSpec == SubsInit /\ [][SubsNext]_vars

----------------------------------------------------------------------------
(* Properties *)

UrlsOf(seq) == [i \in 1..Len(seq) |-> seq[i].url]
Count(seq, x) == Cardinality({i \in 1..Len(seq) : seq[i] = x})
Shared == <<users, subs, sentRows, sentArticles, sink>>

\* C1: once one ProcessUser call has pushed an article to a user, no other call
\* pushes it to that user again: every push of a URL counted for a user since
\* the last reset was made by one and the same invocation.
C1_NoSecondDelivery ==
    \A t \in TaskIds : \A a \in DOMAIN sink[t[1]] :
        LET n == Count(UrlsOf(tasks[t].pushed), a)
        IN  n > 0 => sink[t[1]][a] = n

\* C2: within one pass a URL is added to the fresh list, and so pushed, at most
\* once, whatever the ledger calls answer.
C2_FreshOncePerPass ==
    \A t \in TaskIds :
        \A i, j \in 1..Len(tasks[t].fresh) :
            i # j => tasks[t].fresh[i].url # tasks[t].fresh[j].url

\* C3: a call with force = false for a user whose last delivery is set and less
\* than the interval ago returns 0 at the gate, and that step changes nothing
\* else: no table, no map entry, no send, and the call has fetched nothing.
C3_GatedStep(t) ==
    ( /\ tasks[t].pc = "start"
      /\ tasks'[t].pc # "start"
      /\ ~tasks[t].force
      /\ tasks[t].user.last # <<>>
      /\ clock - tasks[t].user.last[1] < tasks[t].user.interval )
    => /\ tasks'[t].pc = "done"
       /\ tasks'[t].ret = 0
       /\ tasks'[t].topics = <<>>
       /\ tasks'[t].fetched = <<>>
       /\ tasks'[t].fresh = <<>>
       /\ tasks'[t].pushed = <<>>
       /\ UNCHANGED Shared

C3_GatedCallHasNoEffect == [][\A t \in TaskIds : C3_GatedStep(t)]_vars

\* A scheduled call came back from the gate: it found a timestamp younger than
\* the interval.
C3_Witness ==
    \E t \in TaskIds :
        /\ tasks[t].pc = "done"
        /\ ~tasks[t].force
        /\ tasks[t].user.last # <<>>
        /\ tasks[t].now - tasks[t].user.last[1] < tasks[t].user.interval
        /\ tasks[t].ret = 0

\* C4: a call goes on from the gate to the topic retrieval exactly when it is
\* forced, or the user has no last delivery, or at least the interval has passed.
C4_GateStep(t) ==
    (tasks[t].pc = "start" /\ tasks'[t].pc # "start")
    => ( tasks'[t].pc = "subs"
         <=> \/ tasks[t].force
             \/ tasks[t].user.last = <<>>
             \/ clock - tasks[t].user.last[1] >= tasks[t].user.interval )

C4_GatePassesExactlyWhenDue == [][\A t \in TaskIds : C4_GateStep(t)]_vars

\* A forced call whose user was delivered to at this very instant is past the gate.
C4_Witness ==
    \E t \in TaskIds :
        /\ tasks[t].force
        /\ tasks[t].user.last = <<tasks[t].now>>
        /\ tasks[t].pc = "fetch"

\* C5: one pass pushes min(F, L) articles, the first ones of its fresh list in
\* order, where F is the length of the fresh list and L the user's limit, or 5
\* when the limit is not positive.
C5_PushesFirstLimitFresh ==
    \A t \in TaskIds :
        tasks[t].pc \in {"update", "done"} =>
            LET F == Len(tasks[t].fresh)
                L == IF tasks[t].user.limit > 0 THEN tasks[t].user.limit ELSE 5
            IN  /\ Len(tasks[t].pushed) = Min(F, L)
                /\ \A i \in 1..Min(F, L) : tasks[t].pushed[i].url = tasks[t].fresh[i].url

\* A pass over eight fresh articles with an unset limit has pushed five.
C5_Witness ==
    \E t \in TaskIds :
        /\ tasks[t].pc = "done"
        /\ tasks[t].user.limit = 0
        /\ Len(tasks[t].fresh) = 8
        /\ Len(tasks[t].pushed) = 5

\* 183 days in minutes.
Horizon == 183 * 24 * 60

\* C6 (never): every article of a fresh list, every article being marked as
\* seen and every article pushed is younger than 183 days at the 'now' of its pass.
C6_NoStaleArticle ==
    \A t \in TaskIds :
        LET r == tasks[t]
        IN  /\ \A i \in 1..Len(r.fresh) : r.now - r.fresh[i].publishedAt < Horizon
            /\ r.pc \in {"mark", "cacheW"} => r.now - r.arts[r.ai].publishedAt < Horizon
            /\ \A i \in 1..Len(r.pushed) :
                   \E j \in 1..Len(r.fresh) : r.fresh[j].url = r.pushed[i].url

\* C6 (eligible): when the seen test of an article younger than 183 days
\* answers "not seen", from the ledger or, after a failed read, from the map,
\* the article is appended to the fresh list and is marked next.
C6_EligibleStep(t) ==
    LET r == tasks[t]
        a == r.arts[r.ai]
        u == r.user.id
    IN  ( /\ r.pc \in {"article", "cacheR"}
          /\ tasks'[t].pc \notin {r.pc, "cacheR"}
          /\ r.now - a.publishedAt < Horizon
          /\ IF r.pc = "article"
             THEN <<u, a.url>> \notin sentRows
             ELSE ~(<<u, a.url>> \in DOMAIN sentArticles /\ a.url \in sentArticles[<<u, a.url>>]) )
        => /\ tasks'[t].fresh = Append(r.fresh, a)
           /\ tasks'[t].pc = "mark"

\* C6: no article of 183 days or more is selected, marked or delivered; a
\* younger one that is not yet seen is selected.
C6_StalenessFilter ==
    /\ []C6_NoStaleArticle
    /\ [][\A t \in TaskIds : C6_EligibleStep(t)]_vars

\* A pass that began when article b was exactly 183 days old fetched topic
\* "tech", which returns b and the ten days old a: it selected a and not b.
C6_Witness ==
    \E t \in TaskIds :
        LET r == tasks[t]
        IN  /\ r.pc = "done"
            /\ r.now - ArtB.publishedAt = Horizon
            /\ \E i \in 1..Len(r.fetched) : r.fetched[i] = <<"tech", TRUE>>
            /\ \E i \in 1..Len(r.fresh) : r.fresh[i] = ArtA
            /\ \A i \in 1..Len(r.fresh) : r.fresh[i] # ArtB

\* C7: a call that finds no subscribed topic returns 0 in that step, which
\* changes nothing else: no fetch, no ledger or map write, no send and no
\* timestamp update.
C7_NoTopicsStep(t) ==
    ( /\ tasks[t].pc = "subs"
      /\ tasks'[t].pc # "subs"
      /\ subs[tasks[t].user.id] = <<>> )
    => /\ tasks'[t].pc = "done"
       /\ tasks'[t].ret = 0
       /\ tasks'[t].fetched = <<>>
       /\ tasks'[t].fresh = <<>>
       /\ tasks'[t].pushed = <<>>
       /\ UNCHANGED Shared

C7_NoTopicsNoEffect == [][\A t \in TaskIds : C7_NoTopicsStep(t)]_vars

\* A forced and a scheduled call of a user without subscriptions have both returned.
C7_Witness ==
    /\ \A t \in TaskIds : tasks[t].pc = "done" /\ subs[t[1]] = <<>> /\ tasks[t].ret = 0
    /\ \E t \in TaskIds : tasks[t].force
    /\ \E t \in TaskIds : ~tasks[t].force

\* C8 (all fetched): once the topic loop of a pass is over, FetchNews was
\* called once for every subscribed topic, in order, whatever failed.
C8_AllTopicsFetched ==
    \A t \in TaskIds :
        tasks[t].pc \in {"send", "update"} \/ (tasks[t].pc = "done" /\ tasks[t].topics # <<>>)
        => [i \in 1..Len(tasks[t].fetched) |-> tasks[t].fetched[i][1]] = tasks[t].topics

\* C8 (skip): the step in which FetchNews fails moves the pass to the next
\* topic, or past the loop after the last one, with its fresh list as it was,
\* and changes nothing else: what an empty answer would do.
C8_FailedFetchStep(t) ==
    LET r == tasks[t]
        q == tasks'[t]
    IN  ( /\ r.pc = "fetch"
          /\ q.fetched = Append(r.fetched, <<r.topics[r.ti], FALSE>>) )
        => /\ q.fresh = r.fresh
           /\ q.pushed = r.pushed
           /\ q.topics = r.topics
           /\ q.ti = r.ti + 1
           /\ q.pc = IF r.ti < Len(r.topics) THEN "fetch"
                     ELSE IF r.fresh = <<>> THEN "update" ELSE "send"
           /\ UNCHANGED Shared

\* C8: a topic whose fetch fails is skipped and the other topics are still
\* fetched, their fresh articles selected and sent.
C8_FailedTopicSkipped ==
    /\ []C8_AllTopicsFetched
    /\ [][\A t \in TaskIds : C8_FailedFetchStep(t)]_vars

\* The fetch of "sports" failed, the fetch of "tech" succeeded and its article a
\* was marked and delivered.
C8_Witness ==
    \E t \in TaskIds :
        LET r == tasks[t]
        IN  /\ r.pc = "done"
            /\ r.fetched = << <<"sports", FALSE>>, <<"tech", TRUE>> >>
            /\ \E i \in 1..Len(r.pushed) : r.pushed[i] = [url |-> "a", ok |-> TRUE]
            /\ <<r.user.id, "a">> \in sentRows

\* C9: a failure or fault inside one user's ProcessUser invocation does not keep
\* another user of the same batch pass from being processed: no fault raised
\* in an invocation ends the process while an invocation of the pass is unfinished.
C9_BatchIsolation ==
    \A b \in SchedTasks :
        (loop = "batch" /\ tasks[b].pc # "done")
        => crashed # "fatal error: concurrent map access"

\* C10: after Start(), a second Stop() returns without a panic.
C10_SecondStopReturns ==
    (started /\ stopCalls >= 2) => crashed # "panic: close of closed channel"

\* C11 (from then on): once the loop goroutine has returned, it stays returned,
\* the ticker stays stopped and no invocation of a batch pass is started.
C11_ExitedStep ==
    loop = "exited"
    => /\ loop' = "exited"
       /\ ~tickerOn'
       /\ \A t \in SchedSlots : tasks'[t].pc = "start" => tasks[t].pc = "start"

\* C11: after Stop() on a started scheduler the loop goroutine returns and the
\* ticker is stopped, in every fair run in which the process lives on (every
\* invocation in flight ends), and after that no tick starts a batch pass.
C11_StopEndsLoop ==
    /\ (started /\ stopClosed) ~> (~Alive \/ (loop = "exited" /\ ~tickerOn))
    /\ [][C11_ExitedStep]_vars

\* Stop() was called once after a batch pass: the loop has returned, the ticker
\* is stopped and a tick left in the channel is not served.
C11_Witness ==
    /\ Alive
    /\ stopCalls = 1
    /\ loop = "exited"
    /\ ~tickerOn
    /\ tickPending
    /\ \A t \in SchedTasks : tasks[t].pc = "done"

\* C12: Stop() before any Start() does not crash, and neither does the first
\* Stop() that follows the later Start().
C12_StopBeforeStartHarmless ==
    (started /\ stopCalls <= 1) => crashed # "panic: close of closed channel"

\* C13 (steps): the slice of a pass holds every row of the users table once, as
\* read when GetAllUsers returned; an invocation of a pass is started only by the
\* pass, for the next row of the slice, on that row and with force = false;
\* the pass ends only in a step that finds every invocation finished, and
\* after the go statements only when the invocation of every row of the slice,
\* called on that row, has returned.
C13_BatchStep ==
    /\ (pass.pc = "users" /\ pass'.pc \in {"go", "wait"})
       => /\ pass'.users = users
          /\ Len(pass'.todo) = Cardinality(UserIds)
          /\ {pass'.todo[i] : i \in 1..Len(pass'.todo)} = UserIds
    /\ \A u \in UserIds :
           (tasks'[<<u, "sched">>].pc = "start" /\ tasks[<<u, "sched">>].pc # "start")
           => /\ loop = "batch" /\ pass.pc = "go"
              /\ tasks[<<u, "sched">>].pc \in {"idle", "done"}
              /\ pass.todo # <<>> /\ u = pass.todo[1]
              /\ \A i \in 1..Len(pass'.todo) : pass'.todo[i] # u
              /\ tasks'[<<u, "sched">>] =
                     [IdleTask EXCEPT !.pc = "start", !.force = FALSE,
                                      !.user = [id |-> u, last |-> pass.users[u].last,
                                                interval |-> pass.users[u].interval,
                                                limit |-> pass.users[u].limit]]
    /\ (loop = "batch" /\ loop' # "batch")
       => /\ \A u \in UserIds : tasks[<<u, "sched">>].pc \in {"idle", "done"}
          /\ pass.pc \in {"users", "wait"}
          /\ pass.pc = "wait"
             => \A u \in UserIds :
                    /\ tasks[<<u, "sched">>].pc = "done"
                    /\ ~tasks[<<u, "sched">>].force
                    /\ tasks[<<u, "sched">>].user =
                           [id |-> u, last |-> pass.users[u].last,
                            interval |-> pass.users[u].interval,
                            limit |-> pass.users[u].limit]

\* C13 (waiting): while the loop goroutine is not inside a batch pass, no
\* invocation of a pass is in flight.
C13_NoneInFlight ==
    loop # "batch" => \A u \in UserIds : tasks[<<u, "sched">>].pc \in {"idle", "done"}

\* C13: a batch pass calls ProcessUser once with force = false for every user
\* that GetAllUsers returned and is over only when all these calls have returned.
C13_BatchRunsEveryUserOnce ==
    /\ []C13_NoneInFlight
    /\ [][C13_BatchStep]_vars

\* A batch pass over both users is over: each invocation fetched its topic with
\* force = false and returned, and the loop is back at its select.
C13_Witness ==
    /\ loop = "select"
    /\ \A t \in SchedTasks :
           tasks[t].pc = "done" /\ ~tasks[t].force /\ tasks[t].fetched # <<>>

\* C14 (count): a pass that got a topic list and has returned issued one
\* timestamp update, with the 'now' it took at its start; a pass still running
\* has issued none yet.
C14_OneUpdate ==
    \A t \in TaskIds :
        LET r == tasks[t]
        IN  /\ (r.pc = "done" /\ r.topics # <<>>)
               => (Len(r.upd) = 1 /\ r.upd[1].at = r.now)
            /\ r.pc # "done" => r.upd = <<>>

\* C14 (step): the update step writes 'now' to the user's row when it succeeds
\* and leaves the row alone when it fails; either way the call returns its
\* count and the process lives on.
C14_UpdateStep(t) ==
    LET r == tasks[t]
        q == tasks'[t]
    IN  (r.pc = "update" /\ q.pc # "update")
        => /\ q.pc = "done"
           /\ q.ret = Len(r.fresh)
           /\ crashed' = crashed
           /\ IF q.upd[1].ok
              THEN users' = [users EXCEPT ![r.user.id].last = <<r.now>>]
              ELSE users' = users

\* C14: every pass past the gate with at least one topic issues exactly one
\* update of the last-delivery timestamp, to its 'now', whatever was found,
\* fetched or delivered, and a failed update is not fatal.
C14_TimestampUpdatedOnce ==
    /\ []C14_OneUpdate
    /\ [][\A t \in TaskIds : C14_UpdateStep(t)]_vars

\* A pass whose fetch of "sports" failed and whose delivery of a failed has
\* updated the timestamp to its 'now'.
C14_Witness ==
    \E t \in TaskIds :
        LET r == tasks[t]
        IN  /\ r.pc = "done"
            /\ \E i \in 1..Len(r.fetched) : ~r.fetched[i][2]
            /\ \E i \in 1..Len(r.pushed) : ~r.pushed[i].ok
            /\ r.upd = <<[at |-> r.now, ok |-> TRUE]>>
            /\ users[r.user.id].last = <<r.now>>

\* C15: the value a call returns is the number of articles of its fresh list,
\* whatever the cap kept and whatever the deliveries answered; it is 0 for a
\* call that got no topic list (gated, retrieval failed, no topics) and for a
\* pass that found nothing fresh.
C15_ReturnsFreshCount ==
    \A t \in TaskIds :
        LET r == tasks[t]
        IN  r.pc = "done"
            => /\ r.ret = Len(r.fresh)
               /\ (r.topics = <<>> \/ r.fresh = <<>>) => r.ret = 0

\* A pass found a and b fresh, pushed only a under the limit of one, and that
\* delivery failed: it returned 2.
C15_Witness ==
    \E t \in TaskIds :
        LET r == tasks[t]
        IN  /\ r.pc = "done"
            /\ UrlsOf(r.fresh) = <<"a", "b">>
            /\ r.pushed = <<[url |-> "a", ok |-> FALSE]>>
            /\ r.ret = 2

\* C16: the value a call returns is the number of articles it pushed to the
\* user in that pass.
C16_ReturnsPushedCount ==
    \A t \in TaskIds :
        tasks[t].pc = "done" => tasks[t].ret = Len(tasks[t].pushed)

\* C17 (attempts): the deliveries a pass has attempted are the articles of the
\* capped list before its send position, one attempt each and in list order;
\* a pass past its send loop has attempted the whole capped list, and its
\* returned count and its timestamp update are what they are without failures.
C17_OneAttemptEach ==
    \A t \in TaskIds :
        LET r == tasks[t]
            L == IF r.user.limit > 0 THEN r.user.limit ELSE 5
            n == Min(Len(r.fresh), L)
            tried == IF r.pc = "send" THEN r.di - 1 ELSE n
        IN  r.pc \in {"send", "update", "done"}
            => /\ Len(r.pushed) = tried
               /\ \A i \in 1..tried : r.pushed[i].url = r.fresh[i].url
               /\ (r.pc = "done" /\ r.fresh # <<>>)
                  => (r.ret = Len(r.fresh) /\ Len(r.upd) = 1 /\ r.upd[1].at = r.now)

\* C17 (failure): the step of a failed delivery moves on to the next article
\* of the capped list, or to the timestamp update after the last one, and
\* changes neither the fresh list nor the user's row.
C17_FailedSendStep(t) ==
    LET r == tasks[t]
        q == tasks'[t]
        L == IF r.user.limit > 0 THEN r.user.limit ELSE 5
    IN  ( /\ r.pc = "send"
          /\ Len(q.pushed) = Len(r.pushed) + 1
          /\ ~q.pushed[Len(q.pushed)].ok )
        => /\ q.di = r.di + 1
           /\ q.pc = IF r.di < Min(Len(r.fresh), L) THEN "send" ELSE "update"
           /\ q.fresh = r.fresh
           /\ q.upd = r.upd
           /\ users' = users
           /\ crashed' = crashed

\* C17: every article of the capped send list gets exactly one delivery
\* attempt, in order, also after a failed delivery, and a failed delivery
\* changes neither the returned count nor the timestamp update.
C17_DeliveryFailureSkipped ==
    /\ []C17_OneAttemptEach
    /\ [][\A t \in TaskIds : C17_FailedSendStep(t)]_vars

\* With a limit of two and eight fresh articles, the delivery of the first
\* failed and the second was delivered; the pass returned 8 and updated the
\* timestamp.
C17_Witness ==
    \E t \in TaskIds :
        LET r == tasks[t]
        IN  /\ r.pc = "done"
            /\ r.user.limit = 2
            /\ r.pushed = <<[url |-> "n1", ok |-> FALSE], [url |-> "n2", ok |-> TRUE]>>
            /\ r.ret = 8
            /\ r.upd = <<[at |-> r.now, ok |-> TRUE]>>

\* C18: no two goroutines are inside an access to the fallback map at the
\* same time.
C18_CacheMutualExclusion ==
    Cardinality({g.who : g \in MapAccesses}) <= 1

\* The positions of a goroutine about to read, and about to write, the map.
CacheReadPcs == {"cacheR", "qCacheR"}
CacheWritePcs == {"cacheW", "mCacheW"}

\* C19 (healthy ledger): as long as no ledger call has failed, the map holds
\* no seen entry and no goroutine is at a read or a write of the map.
C19_HealthyLedgerNoCache ==
    budget.ledgerErrs = 0
    => /\ \A k \in DOMAIN sentArticles : sentArticles[k] = {}
       /\ \A t \in TaskIds : tasks[t].pc \notin CacheReadPcs \cup CacheWritePcs

\* C19 (steps of one goroutine): it comes to a read of the map only in the
\* step of a failed ledger read and to a write only in the step of a failed
\* ledger write; a ledger read that succeeds decides by the ledger's answer.
C19_Step(t) ==
    LET r == tasks[t]
        q == tasks'[t]
        u == r.user.id
    IN  /\ (q.pc \in CacheReadPcs /\ r.pc \notin CacheReadPcs)
           => /\ r.pc \in {"article", "qLedger"}
              /\ budget'.ledgerErrs = budget.ledgerErrs + 1
        /\ (q.pc \in CacheWritePcs /\ r.pc \notin CacheWritePcs)
           => /\ r.pc \in {"mark", "mAgain"}
              /\ budget'.ledgerErrs = budget.ledgerErrs + 1
        /\ (r.pc = "article" /\ q.pc = "mark") => <<u, r.arts[r.ai].url>> \notin sentRows
        /\ (r.pc = "qLedger" /\ q.pc = "done") => q.ans = (<<u, r.arts[1].url>> \in sentRows)

\* C19 (the map): a seen entry is added only in the step of a goroutine that
\* was at a write of the map.
C19_GrowStep ==
    (\E k \in DOMAIN sentArticles' :
        /\ sentArticles'[k] # {}
        /\ IF k \in DOMAIN sentArticles THEN sentArticles'[k] # sentArticles[k] ELSE TRUE)
    => \E t \in TaskIds : tasks[t].pc \in CacheWritePcs /\ tasks'[t].pc \notin CacheWritePcs

\* C19: the map is read only after a failed ledger read and gains a seen
\* entry only after a failed ledger write; while every ledger call succeeds
\* nothing is added to it and every answer is the ledger's.
C19_CacheOnlyOnLedgerError ==
    /\ []C19_HealthyLedgerNoCache
    /\ [][C19_GrowStep /\ \A t \in TaskIds : C19_Step(t)]_vars

\* No ledger call has failed: a pass delivered a, MarkArticleAsSent and
\* IsArticleSent have returned, the answer true being the ledger's, and the
\* map is empty.
C19_Witness ==
    /\ budget.ledgerErrs = 0
    /\ tasks[<<1, "sched">>].pc = "done"
    /\ tasks[<<1, "sched">>].pushed # <<>>
    /\ tasks[<<1, "mark">>].pc = "done"
    /\ tasks[<<1, "seen">>].pc = "done"
    /\ tasks[<<1, "seen">>].ans
    /\ sentArticles = <<>>

\* C20: when the ledger write of a mark of (U, A) has failed and the marking
\* operation has returned, (U, A) is recorded in the fallback map.
C20_FailedWriteIsCached ==
    \A t \in TaskIds :
        (tasks[t].pc = "done" /\ tasks[t].err)
        => CacheLookup(sentArticles, tasks[t].user.id, tasks[t].arts[1].url)

\* The map holds a seen entry of article a for user u.
C21_In(cache, u, a) ==
    IF <<u, a>> \in DOMAIN cache THEN a \in cache[<<u, a>>] ELSE FALSE

\* C21 (read): a failed ledger read sends the goroutine to the map; the read
\* of the map answers whether the map holds the pair, to IsArticleSent, which
\* returns no error, and to the dedup filter of a pass.
C21_ReadStep(t) ==
    LET r == tasks[t]
        q == tasks'[t]
        u == r.user.id
        a == r.arts[r.ai].url
    IN  /\ ( /\ r.pc \in {"article", "qLedger"}
             /\ q.pc # r.pc
             /\ budget'.ledgerErrs = budget.ledgerErrs + 1 )
           => q.pc \in CacheReadPcs
        /\ (r.pc = "qCacheR" /\ q.pc # "qCacheR")
           => (q.pc = "done" /\ ~q.err /\ q.ans = C21_In(sentArticles, u, a))
        /\ (r.pc = "cacheR" /\ q.pc # "cacheR")
           => IF C21_In(sentArticles, u, a)
              THEN q.fresh = r.fresh /\ q.pc # "mark"
              ELSE q.fresh = Append(r.fresh, r.arts[r.ai]) /\ q.pc = "mark"

\* C21 (record): a pair comes into the map exactly in the step of a map write
\* for it, and leaves it only when a write finds its segment full.
C21_RecordStep ==
    \A u \in UserIds : \A a \in DOMAIN sink[u] :
        LET writers == {t \in TaskIds : /\ tasks[t].pc \in CacheWritePcs
                                         /\ tasks'[t].pc \notin CacheWritePcs
                                         /\ tasks[t].user.id = u
                                         /\ tasks[t].arts[tasks[t].ai].url = a}
        IN  /\ writers # {} => C21_In(sentArticles', u, a)
            /\ (C21_In(sentArticles', u, a) /\ ~C21_In(sentArticles, u, a)) => writers # {}
            /\ (C21_In(sentArticles, u, a) /\ ~C21_In(sentArticles', u, a))
               => Cardinality(sentArticles[<<u, a>>]) >= maxCacheSize

\* C21: when the ledger read fails, IsArticleSent and the dedup filter answer
\* from the map, true exactly for a pair recorded there and not cleared since,
\* and no error is reported.
C21_FallbackReadAnswersFromCache ==
    [][C21_RecordStep /\ \A t \in TaskIds : C21_ReadStep(t)]_vars

\* The ledger has no row of (1, a), the map holds the pair after a failed
\* write, and IsArticleSent, its ledger read failed, has answered true
\* without an error.
C21_Witness ==
    /\ <<1, "a">> \notin sentRows
    /\ budget.resets = 1
    /\ budget.ledgerErrs = 2
    /\ C21_In(sentArticles, 1, "a")
    /\ tasks[<<1, "seen">>].pc = "done"
    /\ tasks[<<1, "seen">>].ans
    /\ ~tasks[<<1, "seen">>].err

\* The seen entries the map holds for user u, each with the key of its segment.
C22_EntriesOf(u) ==
    UNION {{<<k, x>> : x \in sentArticles[k]} : k \in {j \in DOMAIN sentArticles : j[1] = u}}

\* C22: the map never holds more than maxCacheSize seen entries of one user.
C22_CacheBoundedPerUser ==
    \A u \in UserIds : Cardinality(C22_EntriesOf(u)) <= maxCacheSize

\* C23: when ResetSentArticlesHistory(U) has succeeded, at the step that ends
\* it, the map holds no seen entry of U, so that a fallback read answers false
\* for every article.
C23_ResetStep(u) ==
    (resets[u] = "mapW" /\ resets'[u] = "idle")
    => \A a \in DOMAIN sink[u] :
           ~(<<u, a>> \in DOMAIN sentArticles' /\ a \in sentArticles'[<<u, a>>])

C23_ResetClearsCache == [][\A u \in UserIds : C23_ResetStep(u)]_vars

\* What the ledger, the map and the users table hold for user u.
C24_RecordsOf(u) ==
    <<{x \in sentRows : x[1] = u},
      {<<k, sentArticles[k]>> : k \in {j \in DOMAIN sentArticles : j[1] = u}},
      users[u].last>>

\* C24: no step of a pass, a MarkArticleAsSent or a reset that runs for user 1
\* changes a ledger row, a map entry or the last-delivery timestamp of user 2.
C24_OtherUserUntouched ==
    [][C24_RecordsOf(2)' = C24_RecordsOf(2)]_vars

\* For user 1 a pass has delivered, a MarkArticleAsSent has returned and a
\* reset has run to its end after a failed ledger write was recorded in the
\* map; user 2 still has its ledger row, its map entry and its timestamp.
C24_Witness ==
    /\ tasks[<<1, "sched">>].pc = "done"
    /\ tasks[<<1, "sched">>].pushed # <<>>
    /\ tasks[<<1, "mark">>].pc = "done"
    /\ budget.resets = 0
    /\ resets[1] = "idle"
    /\ UserKey(1) \in DOMAIN sentArticles
    /\ \E k \in DOMAIN sentArticles : k[1] = 1 /\ sentArticles[k] # {}
    /\ users[1].last # <<>>
    /\ C24_RecordsOf(2) = <<{<<2, "a">>}, {<<TopicKey(2, "b"), {"b"}>>}, <<0>>>>

\* C25 (one goroutine): a ledger write of MarkArticleAsSent that succeeds
\* leaves the row of its pair in the ledger, the second write changing
\* nothing; a ledger read that succeeds answers whether the ledger holds the
\* row of its pair.
C25_TaskStep(t) ==
    LET r == tasks[t]
        q == tasks'[t]
        pair == <<r.user.id, r.arts[1].url>>
    IN  /\ (r.pc = "mLedger" /\ q.pc = "mAgain") => pair \in sentRows'
        /\ (r.pc = "mAgain" /\ q.pc = "done")
           => /\ ~q.err
              /\ sentRows' = sentRows \cup {pair}
              /\ pair \in sentRows => sentRows' = sentRows
        /\ (r.pc = "qLedger" /\ q.pc = "done")
           => /\ ~q.err
              /\ q.ans <=> (pair \in sentRows)

\* C25 (the ledger): the step of a reset's delete that succeeds leaves no row
\* of its user; a row leaves the ledger only in such a step and enters it only
\* in a step of a mark of its pair.
C25_LedgerStep ==
    /\ \A u \in UserIds :
           (resets[u] = "idle" /\ resets'[u] = "mapW")
           => \A x \in sentRows' : x[1] # u
    /\ \A x \in sentRows \ sentRows' :
           resets[x[1]] = "idle" /\ resets'[x[1]] = "mapW"
    /\ \A x \in sentRows' \ sentRows :
           \E t \in TaskIds :
               /\ tasks[t].pc \in {"mark", "mLedger", "mAgain"}
               /\ tasks'[t].pc # tasks[t].pc
               /\ x = <<tasks[t].user.id, tasks[t].arts[tasks[t].ai].url>>

\* C25: with a healthy ledger, a pair is answered seen from the return of a
\* mark of it until the next successful reset of its user, marking it twice
\* changes nothing, and after a successful reset every pair of the user is
\* answered not seen until it is marked again.
C25_MarkSeenResetLaw ==
    [][C25_LedgerStep /\ \A t \in TaskIds : C25_TaskStep(t)]_vars

\* No ledger call has failed: MarkArticleAsSent(1, b) wrote its row twice and
\* returned nil after article a had been marked too, the reset that followed
\* left the ledger with the row of user 2 alone, and IsArticleSent(1, a)
\* answered false.
C25_Witness ==
    /\ budget.ledgerErrs = 0
    /\ budget.calls = 0
    /\ tasks[<<1, "mark">>].pc = "done"
    /\ ~tasks[<<1, "mark">>].err
    /\ tasks[<<1, "mark">>].arts[1].url = "b"
    /\ tasks[<<1, "seen">>].pc = "done"
    /\ tasks[<<1, "seen">>].arts[1].url = "a"
    /\ ~tasks[<<1, "seen">>].ans
    /\ budget.resets = 0
    /\ resets[1] = "idle"
    /\ sentRows = {<<2, "a">>}
    /\ sink[1]["a"] = 0

\* C26: the subscriptions of a user hold no two rows of one lower-cased topic.
C26_OnePerUserTopic ==
    \A u \in UserIds :
        \A i, j \in 1..Len(subs[u]) :
            i # j => ToLower(subs[u][i]) # ToLower(subs[u][j])

\* C27 (the pass): a step of a pass keeps the user row it was given, decides
\* the gate by the interval of that row, attempts as many deliveries as the
\* limit of that row allows, and changes of the stored row the last-delivery
\* timestamp alone.
C27_PassStep(t) ==
    LET r == tasks[t]
        q == tasks'[t]
        u == r.user.id
    IN  (r.pc \notin {"idle", "done"} /\ q # r)
        => /\ q.user = r.user
           /\ r.pc = "start" => (q.pc = "done" <=> NotDueYet(r.user, r.force, clock))
           /\ r.pc = "update" => Len(r.pushed) = Min(Len(r.fresh), NewsLimit(r.user))
           /\ users'[u].interval = users[u].interval
           /\ users'[u].limit = users[u].limit
           /\ users'[u].last \in {users[u].last, <<r.now>>}

\* C27 (the settings): a step that changes the stored interval or limit is a
\* settings write, which is no step of a pass and leaves the timestamp alone.
C27_SettingsStep ==
    \A u \in UserIds :
        (users'[u].interval # users[u].interval \/ users'[u].limit # users[u].limit)
        => /\ tasks' = tasks
           /\ budget'.calls = budget.calls - 1
           /\ users'[u].last = users[u].last
           /\ \/ users'[u].interval \in IntervalChoices /\ users'[u].limit = users[u].limit
              \/ users'[u].limit \in LimitChoices /\ users'[u].interval = users[u].interval

\* C27: with settings writes running beside a pass of the same user, the stored
\* interval and limit are those of the last settings write: the bookkeeping of
\* the pass changes the timestamp only, and the pass works with the interval
\* and limit of the row it was given.
C27_SettingsSurvivePass ==
    [][C27_SettingsStep /\ \A t \in TaskIds : C27_PassStep(t)]_vars

\* A pass given the row (interval 60, limit 1) has pushed one article and
\* written the timestamp; the stored interval and limit are the ones written
\* by the settings handlers, which differ from the row of the pass.
C27_Witness ==
    \E t \in TaskIds :
        /\ tasks[t].pc = "done"
        /\ Len(tasks[t].pushed) = 1
        /\ Len(tasks[t].fresh) = 3
        /\ tasks[t].upd # <<>>
        /\ tasks[t].upd[1].ok
        /\ users[1].last = <<tasks[t].now>>
        /\ users[1].interval \in IntervalChoices \ {DefaultInterval}
        /\ users[1].limit \in LimitChoices
        /\ tasks[t].user.interval = DefaultInterval
        /\ tasks[t].user.limit = 1

\* The invocations of a batch pass that have started and not returned.
C28_InFlight == {t \in SchedTasks : tasks[t].pc \notin {"idle", "done"}}

\* C28: the number of ProcessUser invocations of a batch pass that run at the
\* same time is held under a limit that the number of users does not set: with
\* more than one user in the table, fewer invocations than users are in flight.
C28_ConcurrencyBounded ==
    Cardinality(UserIds) > 1 => Cardinality(C28_InFlight) < Cardinality(UserIds)

\* A scheduled invocation has returned after the Article Source failed for
\* every topic of its user, so that nothing was delivered.
C29_SourceFailed(t) ==
    LET r == tasks[t]
    IN  /\ r.pc = "done"
        /\ ~r.force
        /\ r.fetched # <<>>
        /\ \A i \in 1..Len(r.fetched) : ~r.fetched[i][2]
        /\ r.pushed = <<>>

\* C29: a user whose scheduled pass delivered nothing because the calls of the
\* Article Source failed is not held back by the timing gate: a pass started
\* at the next tick fetches the user's topics again.
C29_RetriedNextTick ==
    \A t \in SchedTasks :
        C29_SourceFailed(t) => ~NotDueYet(users[t[1]], FALSE, clock)

\* C30: an on-demand request that ended with no article pushed to the user
\* (nothing was fresh, a supplier call failed, or every delivery attempt
\* failed) has sent the user the message that nothing was found.
C30_NothingReachedIsAnnounced ==
    \A t \in TaskIds :
        LET r == tasks[t]
        IN  (r.pc = "replied" /\ \A i \in 1..Len(r.pushed) : ~r.pushed[i].ok)
            => r.notice

\* C31 (one call): AddFavoriteArticle whose statements succeed goes on to the
\* Create exactly when the user has no row of the URL, and the Create adds the
\* one row and returns nil.
C31_AddStep(t) ==
    LET r == tasks[t]
        q == tasks'[t]
        u == r.user.id
    IN  /\ (r.pc = "fCount" /\ q.pc # "fCount" /\ budget' = budget)
           => (q.pc = "fCreate" <=> \A i \in 1..Len(favorites[u]) : favorites[u][i] # r.arts[1].url)
        /\ (r.pc = "fCreate" /\ q.pc = "done" /\ budget' = budget)
           => /\ ~q.err
              /\ favorites'[u] = Append(favorites[u], r.arts[1].url)

\* C31 (the table): IsFavoriteArticle that succeeds answers whether the user
\* has a row of the URL, and a URL comes among the rows of a user only by the
\* Create of an AddFavoriteArticle for that user and URL.
C31_TableStep ==
    /\ LET q == tasks'[<<1, "isFav">>]
       IN  (q # tasks[<<1, "isFav">>] /\ ~q.err)
           => (q.ans <=> \E i \in 1..Len(favorites[1]) : favorites[1][i] = q.arts[1].url)
    /\ \A u \in UserIds, url \in FavUrls :
           ((\E i \in 1..Len(favorites'[u]) : favorites'[u][i] = url)
               /\ ~(\E i \in 1..Len(favorites[u]) : favorites[u][i] = url))
           => \E t \in TaskIds :
                 /\ tasks[t].pc = "fCreate"
                 /\ tasks'[t].pc = "done"
                 /\ tasks[t].user.id = u
                 /\ tasks[t].arts[1].url = url

\* C31: AddFavoriteArticle for a URL that is not among the user's favorites
\* succeeds, for a second URL of the same user too; afterwards
\* IsFavoriteArticle answers true for it, and false for every URL that was
\* never added for that user.
C31_AddThenIsFavorite ==
    [][C31_TableStep /\ \A t \in TaskIds : C31_AddStep(t)]_vars

\* User 1 added a and then b with no error, and IsFavoriteArticle(1, b)
\* answered true.
C31_Witness ==
    /\ favorites[1] = <<"a", "b">>
    /\ budget.faults = 1
    /\ \E t \in TaskIds :
           tasks[t].pc = "done" /\ ~tasks[t].err /\ tasks[t].arts[1].url = "b"
              /\ t[2] \in {"favA", "favB"}
    /\ tasks[<<1, "isFav">>].pc = "done"
    /\ tasks[<<1, "isFav">>].arts[1].url = "b"
    /\ tasks[<<1, "isFav">>].ans

\* C39: the favorites of a user hold no two rows of one URL.
C39_OneFavoritePerUrl ==
    \A u \in UserIds :
        \A i, j \in 1..Len(favorites[u]) :
            i # j => favorites[u][i] # favorites[u][j]

\* The URLs an invocation selected as fresh and did not deliver: those beyond
\* the cap and those whose bot.Send failed.
C32_Undelivered(r) ==
    {r.fresh[i].url : i \in 1..Len(r.fresh)}
        \ {r.pushed[i].url : i \in {j \in 1..Len(r.pushed) : r.pushed[j].ok}}

\* C32: with no history reset, an article that a returned ProcessUser call of
\* a user selected as fresh and did not deliver is pushed to that user by no
\* later call.
C32_UndeliveredNeverReturns ==
    budget.resets = MaxResets
    => \A t1, t2 \in TaskIds :
           ( /\ t1 # t2
             /\ t1[1] = t2[1]
             /\ tasks[t1].pc = "done"
             /\ tasks[t2].pc \notin {"idle", "done"} )
           => \A i \in 1..Len(tasks[t2].pushed) :
                  tasks[t2].pushed[i].url \notin C32_Undelivered(tasks[t1])

\* C33: while no ledger call has failed and the ProcessUser calls of a user
\* do not overlap, bot.Send has been called at most once for each URL and
\* user since the user's last history reset, over forced and scheduled calls
\* and over URLs that one topic returns twice or two topics return.
C33_PushedAtMostOnce ==
    budget.ledgerErrs = 0
    => \A u \in UserIds : \A a \in DOMAIN sink[u] : sink[u][a] <= 1

\* C34 (steps): a batch pass begins only in a step that takes the tick out of
\* ticker.C and finds no invocation of an earlier pass unfinished; the channel
\* holds one tick, so a tick that fires while one is waiting changes nothing.
C34_TickStep ==
    /\ (loop # "batch" /\ loop' = "batch")
       => /\ tickPending
          /\ ~tickPending'
          /\ \A t \in SchedTasks : tasks[t].pc \in {"idle", "done"}
    /\ (tickPending /\ budget'.ticks < budget.ticks)
       => (tickPending' /\ loop' = loop /\ tasks' = tasks)
    /\ (~tickPending /\ tickPending') => budget'.ticks = budget.ticks - 1

\* C34: with Start() called once, batch passes do not overlap, a pass begins
\* after the pass before it and all its invocations are over, and the ticks
\* that fire during a pass start one further pass at most.
C34_PassesDoNotOverlap == [][C34_TickStep]_vars

\* The first pass is running, no call having failed and no timestamp written
\* yet; every tick of the behaviour has fired, the first started the pass, one
\* waits in ticker.C and the ticks after it were dropped.
C34_Witness ==
    /\ budget.ticks = 0
    /\ budget.faults = 1
    /\ tickPending
    /\ loop = "batch"
    /\ \A u \in UserIds : users[u].last = <<>>
    /\ \E t \in SchedTasks : tasks[t].pc = "send"

\* C35: once Stop() has closed s.stop, the loop goroutine begins no batch pass,
\* a tick waiting in ticker.C notwithstanding.
C35_NoPassAfterStop ==
    [][stopClosed => ~(loop # "batch" /\ loop' = "batch")]_vars

\* C36: at the return of Stop() no batch pass is in progress: the loop
\* goroutine is not inside sendNewsUpdates and no invocation of a pass is
\* unfinished, so nothing is sent or written afterwards.
C36_StopWaitsForPass ==
    [][(~stopClosed /\ stopClosed')
       => /\ loop' # "batch"
          /\ \A t \in SchedTasks : tasks'[t].pc \in {"idle", "done"}]_vars

\* C37: the stored last-delivery timestamp of a user never decreases, a forced
\* run overlapping a scheduled run of the user included: every value written
\* is at least the value it replaces.
C37_TimestampMonotonic ==
    [][\A u \in UserIds :
           users[u].last # <<>>
           => (users'[u].last # <<>> /\ users'[u].last[1] >= users[u].last[1])]_vars

\* C38 (step): the step in which GetUserSubscriptions fails ends the call with
\* 0: the call has fetched nothing, pushed nothing and issued no timestamp
\* update, and the step leaves the tables, the map and the sink as they were.
C38_FailedStep(t) ==
    LET r == tasks[t]
        q == tasks'[t]
    IN  (r.pc = "subs" /\ q # r /\ budget'.faults < budget.faults)
        => /\ q.pc = "done"
           /\ q.ret = 0
           /\ q.fetched = <<>>
           /\ q.fresh = <<>>
           /\ q.pushed = <<>>
           /\ q.upd = <<>>
           /\ Shared' = Shared
           /\ ~NotDueYet(r.user, r.force, clock')

\* C38: a ProcessUser call whose topic retrieval fails returns 0 without a
\* call of the Article Source, a write of the ledger or the map, a delivery or
\* a timestamp update, and the user stays due.
C38_TopicFailureLeavesUserDue == [][\A t \in TaskIds : C38_FailedStep(t)]_vars

\* A scheduled call for a user with subscriptions and no timestamp has
\* returned without a fetch, which only a failed topic retrieval does; the
\* user has no timestamp still.
C38_Witness ==
    \E t \in TaskIds :
        /\ tasks[t].pc = "done"
        /\ ~tasks[t].force
        /\ tasks[t].user.last = <<>>
        /\ subs[t[1]] # <<>>
        /\ tasks[t].fetched = <<>>
        /\ tasks[t].ret = 0
        /\ users[t[1]].last = <<>>
        /\ budget.faults < MaxFaults

\* C40: FetchNews returns an error for an empty topic and asks no provider;
\* else the primary's articles if the primary succeeded with at least one;
\* else the secondary's articles (none, maybe) if its key is set and its call
\* succeeded; else an error exactly if the primary failed, and the primary's
\* empty list if the primary succeeded with no article.
C40_FetchNewsResult ==
    fetchCall.pc = "returned"
    => LET c == fetchCall
       IN  IF c.topic = ""
           THEN c.out.err /\ c.asked = <<>>
           ELSE IF c.primary.ok /\ Len(c.primary.arts) >= 1
           THEN c.out = [err |-> FALSE, arts |-> c.primary.arts]
           ELSE IF c.key # "" /\ c.secondary.ok
           THEN c.out = [err |-> FALSE, arts |-> c.secondary.arts]
           ELSE /\ c.out.err <=> ~c.primary.ok
                /\ c.primary.ok => c.out.arts = <<>>

\* GNews failed, the News API key is set and News API answered with articles:
\* both were asked, in that order, and FetchNews returned the articles of
\* News API with no error.
C40_Witness ==
    /\ fetchCall.pc = "returned"
    /\ fetchCall.topic # ""
    /\ ~fetchCall.primary.ok
    /\ fetchCall.key # ""
    /\ fetchCall.secondary.ok
    /\ Len(fetchCall.secondary.arts) = MaxAnswer
    /\ fetchCall.asked = <<"GNews", "NewsAPI">>
    /\ fetchCall.out = [err |-> FALSE, arts |-> fetchCall.secondary.arts]

====
